---- MODULE Spec2Model ----
(***************************************************************************)
(* Model of the coupon-field extraction engine of snapigo                   *)
(* (src/lib/geo.ts, the later version of lib/coupon-parse.ts, and the      *)
(* expiry resolver of lib/ocr.ts, src/unnamed/part_002).                    *)
(*                                                                         *)
(* Texts are sequences of one-character strings, so that every regular     *)
(* expression of the source is an operator over positions of the text.     *)
(* JavaScript values are tagged records (JsNull, JsUndef, JsStr, JsNum).   *)
(* Heuristic scores are exact: whole thousandths, or rationals.             *)
(*                                                                         *)
(* The later sections model the device side of lib/geo.ts (the throttle of *)
(* nearby notifications, registerFromCoupons, the notification inbox) and  *)
(* the paging of the feed screen, app/(protected)/(tabs)/feed.tsx. Their   *)
(* handlers are async functions: one action per stretch between awaits.    *)
(***************************************************************************)
EXTENDS Integers, Sequences, FiniteSets, TLC

VARIABLES
  text,       \* the argument of the latest extractCouponFields call
  parsed,     \* the ParsedCoupon it returned (JsUndef when there is none to read)
  lastIndex,  \* PHONE_RE.lastIndex, the state of the module-level global regex
  calls,      \* the extractStoreAndAddressFromBlocks calls in flight, by caller
  arg,        \* the argument of a call of one of the engine's pure helpers
  ret,        \* the value that call returned (JsUndef before the call)
  storage,    \* AsyncStorage: the values stored under the keys of lib/geo.ts
  os,         \* notifications scheduled, geofences registered and the clock
  feed,       \* the state of the feed screen
  tasks       \* the async handlers in flight, each with its position and locals

vars == <<text, parsed, lastIndex, calls, arg, ret, storage, os, feed, tasks>>

\* the extraction engine runs without the device: its specifications leave the
\* device state absent
Absent == [absent |-> TRUE]
NoDevice == storage = Absent /\ os = Absent /\ feed = Absent /\ tasks = Absent

----------------------------------------------------------------------------
(* JavaScript values *)

JsNull == [t |-> "null"]
JsUndef == [t |-> "undefined"]
JsStr(s) == [t |-> "string", v |-> s]
JsNum(n) == [t |-> "number", v |-> n]

----------------------------------------------------------------------------
(* Characters and character classes *)

UpperLetters ==
  <<"A","B","C","D","E","F","G","H","I","J","K","L","M",
    "N","O","P","Q","R","S","T","U","V","W","X","Y","Z">>
LowerLetters ==
  <<"a","b","c","d","e","f","g","h","i","j","k","l","m",
    "n","o","p","q","r","s","t","u","v","w","x","y","z">>
Digits == <<"0","1","2","3","4","5","6","7","8","9">>

Range(f) == {f[i] : i \in DOMAIN f}

UpperSet == Range(UpperLetters)
LowerSet == Range(LowerLetters)
DigitSet == Range(Digits)
WordSet == UpperSet \cup LowerSet \cup DigitSet \cup {"_"}
SpaceSet == {" ", "\n", "\t"}

IsUpper(c) == c \in UpperSet
IsLower(c) == c \in LowerSet
IsLetter(c) == c \in UpperSet \/ c \in LowerSet
IsDigit(c) == c \in DigitSet
IsWordChar(c) == c \in WordSet
IsSpace(c) == c \in SpaceSet

DigitValue == [c \in DigitSet |-> (CHOOSE i \in DOMAIN Digits : Digits[i] = c) - 1]
DigitVal(c) == DigitValue[c]

LowerOf == [c \in UpperSet |-> LowerLetters[CHOOSE i \in DOMAIN UpperLetters : UpperLetters[i] = c]]
UpperOf == [c \in LowerSet |-> UpperLetters[CHOOSE i \in DOMAIN LowerLetters : LowerLetters[i] = c]]

ToLowerChar(c) == IF c \in UpperSet THEN LowerOf[c] ELSE c
ToUpperChar(c) == IF c \in LowerSet THEN UpperOf[c] ELSE c

ToLowerCase(s) == [i \in 1..Len(s) |-> ToLowerChar(s[i])]
ToUpperCase(s) == [i \in 1..Len(s) |-> ToUpperChar(s[i])]

\* s.slice(from) with 1-based from
Slice(s, from) == IF from > Len(s) THEN <<>> ELSE SubSeq(s, from, Len(s))

\* is the character at position i (1-based) of class P; FALSE outside the text
DigitAt(s, i) == i >= 1 /\ i <= Len(s) /\ IsDigit(s[i])
SpaceAt(s, i) == i >= 1 /\ i <= Len(s) /\ IsSpace(s[i])
WordAt(s, i) == i >= 1 /\ i <= Len(s) /\ IsWordChar(s[i])
CharAt(s, i, c) == i >= 1 /\ i <= Len(s) /\ s[i] = c

\* \b between positions i-1 and i
WordBoundary(s, i) == WordAt(s, i - 1) # WordAt(s, i)

\* the literal lit at position i, case-sensitive / case-insensitive
LitAt(s, i, lit) ==
  /\ i >= 1
  /\ i + Len(lit) - 1 <= Len(s)
  /\ \A k \in 1..Len(lit) : s[i + k - 1] = lit[k]
LitAtI(s, i, lit) ==
  /\ i >= 1
  /\ i + Len(lit) - 1 <= Len(s)
  /\ \A k \in 1..Len(lit) : ToLowerChar(s[i + k - 1]) = ToLowerChar(lit[k])

\* number of consecutive characters of a class from position i
RECURSIVE SpaceRun(_, _)
SpaceRun(s, i) == IF SpaceAt(s, i) THEN 1 + SpaceRun(s, i + 1) ELSE 0
RECURSIVE DigitRun(_, _)
DigitRun(s, i) == IF DigitAt(s, i) THEN 1 + DigitRun(s, i + 1) ELSE 0

\* parseInt(digits, 10) of a digit string
RECURSIVE ParseInt(_)
ParseInt(ds) ==
  IF ds = <<>> THEN 0
  ELSE 10 * ParseInt(SubSeq(ds, 1, Len(ds) - 1)) + DigitVal(ds[Len(ds)])

\* String(n) of a non-negative integer
RECURSIVE NumToStr(_)
NumToStr(n) ==
  IF n < 10 THEN <<Digits[n + 1]>>
  ELSE NumToStr(n \div 10) \o <<Digits[(n % 10) + 1]>>

\* the first element of a sequence of attempts that is not 0 (0: the attempt failed)
RECURSIVE FirstOk(_)
FirstOk(tries) ==
  IF tries = <<>> THEN 0
  ELSE IF Head(tries) # 0 THEN Head(tries)
  ELSE FirstOk(Tail(tries))

\* x bound to the name of F's parameter in F's body (const x = ...)
With(x, F(_)) == F(x)

Max(a, b) == IF a >= b THEN a ELSE b
Min(a, b) == IF a <= b THEN a ELSE b

----------------------------------------------------------------------------
\* pickBestPercent: /(\d{1,3})\s*%/g, exec loop

\* a match of (\d{1,3})\s*% starting at i: the number of digits captured
\* (greedy: 3, then 2, then 1), 0 when there is no match at i
PercentDigitsAt(s, i) ==
  LET ok(n) == /\ \A k \in 0..(n - 1) : DigitAt(s, i + k)
               /\ CharAt(s, i + n + SpaceRun(s, i + n), "%")
  IN IF ok(3) THEN 3 ELSE IF ok(2) THEN 2 ELSE IF ok(1) THEN 1 ELSE 0

PercentEndAt(s, i) ==
  With(PercentDigitsAt(s, i), LAMBDA n : i + n + SpaceRun(s, i + n) + 1)

\* re.exec(text) from lastIndex `from` (1-based): the leftmost start, 0 if none
RECURSIVE PercentExec(_, _)
PercentExec(s, from) ==
  IF from > Len(s) THEN 0
  ELSE IF PercentDigitsAt(s, from) > 0 THEN from
  ELSE PercentExec(s, from + 1)

PercentLow == 5
PercentHigh == 100

RECURSIVE PickBestPercentFrom(_, _, _)
PickBestPercentFrom(s, from, best) ==
  With(PercentExec(s, from), LAMBDA i :
    IF i = 0 THEN best
    ELSE With(ParseInt(SubSeq(s, i, i + PercentDigitsAt(s, i) - 1)), LAMBDA v :
           PickBestPercentFrom(s, PercentEndAt(s, i),
             IF v >= PercentLow /\ v <= PercentHigh
             THEN (IF best = JsNull THEN JsNum(v) ELSE JsNum(Max(best.v, v)))
             ELSE best)))

pickBestPercent(s) == PickBestPercentFrom(s, 1, JsNull)

----------------------------------------------------------------------------
\* pickBestAmount: /(?:\$|USD\s*)\s*(\d+(?:\.\d{2})?)\s*(?:off|discount|save)?/gi

\* position after the currency marker and the spaces that follow it, 0 if none at i
AmountPrefixEnd(s, i) ==
  IF CharAt(s, i, "$") THEN i + 1 + SpaceRun(s, i + 1)
  ELSE IF LitAtI(s, i, <<"U","S","D">>) THEN i + 3 + SpaceRun(s, i + 3)
  ELSE 0

\* \s*(?:off|discount|save)? from w: the end (exclusive) of the match
AmountTailEnd(s, w) ==
  IF LitAtI(s, w, <<"o","f","f">>) THEN w + 3
  ELSE IF LitAtI(s, w, <<"d","i","s","c","o","u","n","t">>) THEN w + 8
  ELSE IF LitAtI(s, w, <<"s","a","v","e">>) THEN w + 4
  ELSE w

\* the end (exclusive) of the number \d+(?:\.\d{2})? whose integer part ends before q
AmountCaptureEnd(s, q) ==
  IF CharAt(s, q, ".") /\ DigitAt(s, q + 1) /\ DigitAt(s, q + 2) THEN q + 3 ELSE q

\* the match starting at i: [ok, from, to (the captured number), end (next lastIndex)]
AmountAt(s, i) ==
  With(AmountPrefixEnd(s, i), LAMBDA p :
    IF p = 0 \/ DigitRun(s, p) = 0 THEN [ok |-> FALSE, from |-> 0, to |-> 0, end |-> 0]
    ELSE With(AmountCaptureEnd(s, p + DigitRun(s, p)), LAMBDA capEnd :
           [ok |-> TRUE, from |-> p, to |-> capEnd - 1,
            end |-> AmountTailEnd(s, capEnd + SpaceRun(s, capEnd))]))

RECURSIVE AmountExec(_, _)
AmountExec(s, from) ==
  IF from > Len(s) THEN 0
  ELSE IF AmountAt(s, from).ok THEN from
  ELSE AmountExec(s, from + 1)

\* parseFloat of \d+(\.\d{2})?, as a number of cents
ParseCents(cap) ==
  IF Len(cap) >= 3 /\ cap[Len(cap) - 2] = "."
  THEN 100 * ParseInt(SubSeq(cap, 1, Len(cap) - 3))
       + ParseInt(SubSeq(cap, Len(cap) - 1, Len(cap)))
  ELSE 100 * ParseInt(cap)

\* pickBestAmount keeping the first positive amount instead of the greatest
RECURSIVE PickFirstAmountFrom(_, _, _)
PickFirstAmountFrom(s, from, best) ==
  With(AmountExec(s, from), LAMBDA i :
    IF i = 0 THEN best
    ELSE With(AmountAt(s, i), LAMBDA m :
         With(ParseCents(SubSeq(s, m.from, m.to)), LAMBDA v :
           PickFirstAmountFrom(s, m.end,
             IF v > 0 /\ best = JsNull THEN JsNum(v) ELSE best))))

pickFirstAmount(s) == PickFirstAmountFrom(s, 1, JsNull)

RECURSIVE PickBestAmountFrom(_, _, _)
PickBestAmountFrom(s, from, best) ==
  With(AmountExec(s, from), LAMBDA i :
    IF i = 0 THEN best
    ELSE With(AmountAt(s, i), LAMBDA m :
         With(ParseCents(SubSeq(s, m.from, m.to)), LAMBDA v :
           PickBestAmountFrom(s, m.end,
             IF v > 0
             THEN (IF best = JsNull THEN JsNum(v) ELSE JsNum(Max(best.v, v)))
             ELSE best))))

\* the best amount in cents, or null
pickBestAmount(s) == PickBestAmountFrom(s, 1, JsNull)

\* String(a) of the number a = cents/100, as JavaScript prints it
CentsToStr(c) ==
  LET whole == NumToStr(c \div 100)
      frac == c % 100
  IN IF frac = 0 THEN whole
     ELSE IF frac % 10 = 0 THEN whole \o <<".", Digits[(frac \div 10) + 1]>>
     ELSE whole \o <<".", Digits[(frac \div 10) + 1], Digits[(frac % 10) + 1]>>

deriveTitle(s) ==
  With(pickBestPercent(s), LAMBDA p :
    IF p # JsNull THEN JsStr(NumToStr(p.v) \o <<"%"," ","o","f","f">>)
    ELSE With(pickBestAmount(s), LAMBDA a :
           IF a # JsNull THEN JsStr(<<"$">> \o CentsToStr(a.v) \o <<" ","o","f","f">>)
           ELSE JsNull))

----------------------------------------------------------------------------
\* extractTerms

\* raw.replace(/\s+/g, ' ')
\* (computed by halves: two collapsed halves meet in at most one doubled blank)
RECURSIVE CollapseSpaces(_)
CollapseSpaces(s) ==
  IF s = <<>> THEN <<>>
  ELSE IF Len(s) = 1 THEN (IF IsSpace(s[1]) THEN <<" ">> ELSE s)
  ELSE With(CollapseSpaces(SubSeq(s, 1, Len(s) \div 2)), LAMBDA l :
       With(CollapseSpaces(SubSeq(s, Len(s) \div 2 + 1, Len(s))), LAMBDA r :
         IF l[Len(l)] = " " /\ r[1] = " " THEN l \o Tail(r) ELSE l \o r))

\* s.trim()
RECURSIVE TrimEnd(_)
TrimEnd(s) ==
  IF s # <<>> /\ IsSpace(s[Len(s)]) THEN TrimEnd(SubSeq(s, 1, Len(s) - 1)) ELSE s
Trim(s) == TrimEnd(Slice(s, 1 + SpaceRun(s, 1)))

TermsKeywords ==
  << <<"t","e","r","m","s">>,
     <<"c","o","n","d","i","t","i","o","n","s">>,
     <<"v","a","l","i","d">>,
     <<"o","f","f","e","r"," ","v","a","l","i","d">>,
     <<"n","o","t"," ","v","a","l","i","d">>,
     <<"e","x","c","l","u","s","i","o","n","s">>,
     <<"p","r","e","s","e","n","t">>,
     <<"o","n","l","y">> >>

\* /\b(kw1|kw2|...)\b/i matches at i
KeywordAt(s, i, kws) ==
  /\ WordBoundary(s, i)
  /\ \E k \in DOMAIN kws : LitAtI(s, i, kws[k]) /\ WordBoundary(s, i + Len(kws[k]))

\* text.search(re), 1-based; 0 when there is no match
SearchKeyword(s, from, kws) ==
  With({i \in from..Len(s) : KeywordAt(s, i, kws)}, LAMBDA hits :
    IF hits = {} THEN 0 ELSE CHOOSE i \in hits : \A j \in hits : i <= j)

TermsSnippetMax == 400
TermsTailMax == 300

extractTermsUncut(raw) ==
  With(Trim(CollapseSpaces(raw)), LAMBDA t :
  With(SearchKeyword(t, 1, TermsKeywords), LAMBDA idx :
    IF idx > 0
    THEN JsStr(Slice(t, idx))
    ELSE JsStr(Slice(t, Max(0, Len(t) - TermsTailMax) + 1))))

extractTerms(raw) ==
  With(Trim(CollapseSpaces(raw)), LAMBDA t :
  With(SearchKeyword(t, 1, TermsKeywords), LAMBDA idx :
    IF idx > 0
    THEN JsStr(SubSeq(t, idx, Min(Len(t), idx + TermsSnippetMax - 1)))
    ELSE JsStr(Slice(t, Max(0, Len(t) - TermsTailMax) + 1))))

----------------------------------------------------------------------------
\* detectMode: MODE_RE = /\b(dine[\s-]?in|pickup|pick[\s-]?up)\b/i

\* word1 [\s-]? word2 \b at i
TwoPartAt(s, i, w1, w2) ==
  /\ LitAtI(s, i, w1)
  /\ LET j == i + Len(w1) IN
     \/ (SpaceAt(s, j) \/ CharAt(s, j, "-"))
          /\ LitAtI(s, j + 1, w2) /\ WordBoundary(s, j + 1 + Len(w2))
     \/ LitAtI(s, j, w2) /\ WordBoundary(s, j + Len(w2))

\* the group captured by MODE_RE at i: "dine", "pick" or "" (no match at i)
ModeAt(s, i) ==
  IF ~WordBoundary(s, i) THEN ""
  ELSE IF TwoPartAt(s, i, <<"d","i","n","e">>, <<"i","n">>) THEN "dine"
  ELSE IF TwoPartAt(s, i, <<"p","i","c","k">>, <<"u","p">>) THEN "pick"
  ELSE ""

RECURSIVE ModeMatch(_, _)
ModeMatch(s, from) ==
  IF from > Len(s) THEN ""
  ELSE IF ModeAt(s, from) # "" THEN ModeAt(s, from)
  ELSE ModeMatch(s, from + 1)

detectMode(raw) ==
  LET m == ModeMatch(raw, 1) IN
  IF m = "" THEN ""
  ELSE IF m = "dine" THEN "dine-in" ELSE "pickup"

----------------------------------------------------------------------------
\* extractExpiry (lib/geo.ts): the matched substring of the first pattern that matches

\* concatenation of a sequence of sequences
RECURSIVE Flat(_)
Flat(ss) == IF ss = <<>> THEN <<>> ELSE Head(ss) \o Flat(Tail(ss))

IsDateSep(c) == c \in {"/", "-", "."}
DateSepAt(s, i) == i >= 1 /\ i <= Len(s) /\ IsDateSep(s[i])
NonZeroDigitAt(s, i) == DigitAt(s, i) /\ s[i] # "0"

\* (0?[1-9]|1[0-2]) at i: the lengths it can take, in the order the regex tries them
MonthLens(s, i) ==
  (IF CharAt(s, i, "0") /\ NonZeroDigitAt(s, i + 1) THEN <<2>> ELSE <<>>)
  \o (IF NonZeroDigitAt(s, i) THEN <<1>> ELSE <<>>)
  \o (IF CharAt(s, i, "1") /\ DigitAt(s, i + 1) /\ s[i + 1] \in {"0","1","2"}
      THEN <<2>> ELSE <<>>)

\* (0?[1-9]|[12]\d|3[01]) at i
DayLens(s, i) ==
  (IF CharAt(s, i, "0") /\ NonZeroDigitAt(s, i + 1) THEN <<2>> ELSE <<>>)
  \o (IF NonZeroDigitAt(s, i) THEN <<1>> ELSE <<>>)
  \o (IF DigitAt(s, i) /\ s[i] \in {"1","2"} /\ DigitAt(s, i + 1) THEN <<2>> ELSE <<>>)
  \o (IF CharAt(s, i, "3") /\ DigitAt(s, i + 1) /\ s[i + 1] \in {"0","1"}
      THEN <<2>> ELSE <<>>)

\* (20\d{2}|\d{2}) at i
YearLens(s, i) ==
  (IF CharAt(s, i, "2") /\ CharAt(s, i + 1, "0") /\ DigitAt(s, i + 2) /\ DigitAt(s, i + 3)
   THEN <<4>> ELSE <<>>)
  \o (IF DigitAt(s, i) /\ DigitAt(s, i + 1) THEN <<2>> ELSE <<>>)

\* (20\d{2}|\d{2})\b at i: the end (exclusive) of each attempt, 0 for a failed one
YearTries(s, i) ==
  LET yl == YearLens(s, i) IN
  [c \in 1..Len(yl) |-> IF WordBoundary(s, i + yl[c]) THEN i + yl[c] ELSE 0]

\* day sep year \b at i
DayTries(s, i) ==
  LET dl == DayLens(s, i) IN
  Flat([b \in 1..Len(dl) |->
          IF DateSepAt(s, i + dl[b]) THEN YearTries(s, i + dl[b] + 1) ELSE <<>>])

\* month sep day sep year \b at i (no leading \b): the end (exclusive), 0 if no match
NumericDateEndAt(s, i) ==
  LET ml == MonthLens(s, i) IN
  FirstOk(Flat([a \in 1..Len(ml) |->
                  IF DateSepAt(s, i + ml[a]) THEN DayTries(s, i + ml[a] + 1) ELSE <<>>]))

\* numericRe at i
NumericReEndAt(s, i) == IF WordBoundary(s, i) THEN NumericDateEndAt(s, i) ELSE 0

\* leftmost i >= from with EndAt(s, i) # 0; 0 if none
RECURSIVE NumericReSearch(_, _)
NumericReSearch(s, from) ==
  IF from > Len(s) THEN 0
  ELSE IF NumericReEndAt(s, from) # 0 THEN from
  ELSE NumericReSearch(s, from + 1)

\* the month names of longRe, each with the suffixes the regex tries, in order
MonthNames ==
  << [abbr |-> <<"j","a","n">>, rest |-> << <<"u","a","r","y">> >>],
     [abbr |-> <<"f","e","b">>, rest |-> << <<"r","u","a","r","y">> >>],
     [abbr |-> <<"m","a","r">>, rest |-> << <<"c","h">> >>],
     [abbr |-> <<"a","p","r">>, rest |-> << <<"i","l">> >>],
     [abbr |-> <<"m","a","y">>, rest |-> << >>],
     [abbr |-> <<"j","u","n">>, rest |-> << <<"e">> >>],
     [abbr |-> <<"j","u","l">>, rest |-> << <<"y">> >>],
     [abbr |-> <<"a","u","g">>, rest |-> << <<"u","s","t">> >>],
     [abbr |-> <<"s","e","p">>, rest |-> << <<"t">>, <<"t","e","m","b","e","r">> >>],
     [abbr |-> <<"o","c","t">>, rest |-> << <<"o","b","e","r">> >>],
     [abbr |-> <<"n","o","v">>, rest |-> << <<"e","m","b","e","r">> >>],
     [abbr |-> <<"d","e","c">>, rest |-> << <<"e","m","b","e","r">> >>] >>

\* the lengths the month-name group can take at i, in the order the regex tries them
MonthNameLens(s, i) ==
  Flat([m \in 1..Len(MonthNames) |->
     IF ~LitAtI(s, i, MonthNames[m].abbr) THEN <<>>
     ELSE Flat([r \in 1..Len(MonthNames[m].rest) |->
                  IF LitAtI(s, i + 3, MonthNames[m].rest[r])
                  THEN <<3 + Len(MonthNames[m].rest[r])>> ELSE <<>>])
          \o <<3>>])

\* ,?\s+(20\d{2}|\d{2})\b at i
LongYearTries(s, i) ==
  LET p == IF CharAt(s, i, ",") THEN i + 1 ELSE i
      n == SpaceRun(s, p)
  IN IF n >= 1 THEN YearTries(s, p + n) ELSE <<>>

\* \.?\s+\d{1,2},?\s+(20\d{2}|\d{2})\b at i
LongDayTries(s, i) ==
  With(IF CharAt(s, i, ".") THEN i + 1 ELSE i, LAMBDA p :
  With(p + SpaceRun(s, p), LAMBDA k :
    IF k = p THEN <<>>
    ELSE (IF DigitAt(s, k) /\ DigitAt(s, k + 1) THEN LongYearTries(s, k + 2) ELSE <<>>)
         \o (IF DigitAt(s, k) THEN LongYearTries(s, k + 1) ELSE <<>>)))

\* longRe at i: the end (exclusive) of the match, 0 if none
LongReEndAt(s, i) ==
  IF ~WordBoundary(s, i) THEN 0
  ELSE With(MonthNameLens(s, i), LAMBDA ml :
         FirstOk(Flat([a \in 1..Len(ml) |-> LongDayTries(s, i + ml[a])])))

RECURSIVE LongReSearch(_, _)
LongReSearch(s, from) ==
  IF from > Len(s) THEN 0
  ELSE IF LongReEndAt(s, from) # 0 THEN from
  ELSE LongReSearch(s, from + 1)

\* (expires?|valid (?:thru|through|until)) at i: the lengths it can take, in order
ExpiryLabels ==
  << <<"e","x","p","i","r","e","s">>,
     <<"e","x","p","i","r","e">>,
     <<"v","a","l","i","d"," ","t","h","r","u">>,
     <<"v","a","l","i","d"," ","t","h","r","o","u","g","h">>,
     <<"v","a","l","i","d"," ","u","n","t","i","l">> >>

LabelLens(s, i) ==
  Flat([k \in 1..Len(ExpiryLabels) |->
          IF LitAtI(s, i, ExpiryLabels[k]) THEN <<Len(ExpiryLabels[k])>> ELSE <<>>])

RECURSIVE ColonSpaceRun(_, _)
ColonSpaceRun(s, i) ==
  IF SpaceAt(s, i) \/ CharAt(s, i, ":") THEN 1 + ColonSpaceRun(s, i + 1) ELSE 0

\* labeledRe at i: [from, end) of its second group (the date), <<0, 0>> if no match.
\* [:\s]+ is greedy and the date starts with a digit, so giving characters back
\* never produces a match that taking them all does not.
LabeledReGroupAt(s, i) ==
  IF ~WordBoundary(s, i) THEN <<0, 0>>
  ELSE With(LabelLens(s, i), LAMBDA ll :
       With(FirstOk([a \in 1..Len(ll) |->
                      With(i + ll[a] + ColonSpaceRun(s, i + ll[a]), LAMBDA d :
                        IF d > i + ll[a] /\ NumericDateEndAt(s, d) # 0 THEN d ELSE 0)]),
            LAMBDA d : IF d = 0 THEN <<0, 0>> ELSE <<d, NumericDateEndAt(s, d)>>))

RECURSIVE LabeledReSearch(_, _)
LabeledReSearch(s, from) ==
  IF from > Len(s) THEN <<0, 0>>
  ELSE With(LabeledReGroupAt(s, from), LAMBDA g :
         IF g # <<0, 0>> THEN g ELSE LabeledReSearch(s, from + 1))

extractExpiry(raw) ==
  With(CollapseSpaces(raw), LAMBDA t :
  With(NumericReSearch(t, 1), LAMBDA m1 :
    IF m1 # 0 THEN JsStr(SubSeq(t, m1, NumericReEndAt(t, m1) - 1))
    ELSE With(LongReSearch(t, 1), LAMBDA m2 :
      IF m2 # 0 THEN JsStr(SubSeq(t, m2, LongReEndAt(t, m2) - 1))
      ELSE With(LabeledReSearch(t, 1), LAMBDA m3 :
        IF m3 # <<0, 0>> THEN JsStr(SubSeq(t, m3[1], m3[2] - 1))
        ELSE JsNull))))

----------------------------------------------------------------------------
\* PHONE_RE = /(?:\+?1SEP*)?(?:\(?\d{3}\)?SEP*)?\d{3}SEP\d{4}/g, SEP = [\s.\-•·]
\* (the two bullet characters are outside the alphabet of the modelled texts)

IsPhoneSep(c) == IsSpace(c) \/ c \in {".", "-"}
PhoneSepAt(s, i) == i >= 1 /\ i <= Len(s) /\ IsPhoneSep(s[i])
RECURSIVE PhoneSepRun(_, _)
PhoneSepRun(s, i) == IF PhoneSepAt(s, i) THEN 1 + PhoneSepRun(s, i + 1) ELSE 0

\* \d{3}SEP\d{4} at i: the end (exclusive), 0 if no match
PhoneTailEnd(s, i) ==
  IF /\ DigitAt(s, i) /\ DigitAt(s, i + 1) /\ DigitAt(s, i + 2)
     /\ PhoneSepAt(s, i + 3)
     /\ DigitAt(s, i + 4) /\ DigitAt(s, i + 5) /\ DigitAt(s, i + 6) /\ DigitAt(s, i + 7)
  THEN i + 8 ELSE 0

\* (?:\(?\d{3}\)?SEP*)?\d{3}SEP\d{4} at i: the attempts in the order the regex makes them
PhoneAreaTries(s, i) ==
  LET j == IF CharAt(s, i, "(") THEN i + 1 ELSE i
      k == IF CharAt(s, j + 3, ")") THEN j + 4 ELSE j + 3
      n == PhoneSepRun(s, k)
  IN (IF DigitAt(s, j) /\ DigitAt(s, j + 1) /\ DigitAt(s, j + 2)
      THEN [a \in 1..(n + 1) |-> PhoneTailEnd(s, k + n + 1 - a)]
      ELSE <<>>)
     \o <<PhoneTailEnd(s, i)>>

\* the whole pattern at i: the end (exclusive) of the match, 0 if none
PhoneEndAt(s, i) ==
  LET j == IF CharAt(s, i, "+") THEN i + 1 ELSE i
      n == PhoneSepRun(s, j + 1)
  IN FirstOk((IF CharAt(s, j, "1")
              THEN Flat([a \in 1..(n + 1) |-> PhoneAreaTries(s, j + 1 + n + 1 - a)])
              ELSE <<>>)
             \o PhoneAreaTries(s, i))

\* PHONE_RE.exec(s) from lastIndex li (0-based, as JavaScript keeps it):
\* the 1-based start of the leftmost match at or after it, 0 if none
RECURSIVE PhoneSearch(_, _)
PhoneSearch(s, from) ==
  IF from > Len(s) THEN 0
  ELSE IF PhoneEndAt(s, from) # 0 THEN from
  ELSE PhoneSearch(s, from + 1)

\* PHONE_RE.test(s) with PHONE_RE.lastIndex = li: [found, lastIndex afterwards].
\* A global regex starts at lastIndex, leaves it at the end of the match, and
\* resets it to 0 when nothing matches.
PhoneTest(s, li) ==
  With(IF li > Len(s) THEN 0 ELSE PhoneSearch(s, li + 1), LAMBDA i :
    IF i = 0 THEN [found |-> FALSE, lastIndex |-> 0]
    ELSE [found |-> TRUE, lastIndex |-> PhoneEndAt(s, i) - 1])

\* [...s.matchAll(PHONE_RE)].map(m => m[0]): matchAll clones the regex and copies
\* its lastIndex, so the matches are those at or after PHONE_RE.lastIndex
RECURSIVE PhoneMatchesFrom(_, _)
PhoneMatchesFrom(s, from) ==
  LET i == PhoneSearch(s, from) IN
  IF i = 0 THEN <<>>
  ELSE <<SubSeq(s, i, PhoneEndAt(s, i) - 1)>> \o PhoneMatchesFrom(s, PhoneEndAt(s, i))

PhoneMatchAll(s, li) == IF li > Len(s) THEN <<>> ELSE PhoneMatchesFrom(s, li + 1)

\* (s.match(/\d/g) || []).length
CountDigits(s) == Cardinality({i \in DOMAIN s : IsDigit(s[i])})

\* matches.sort((a, b) => digits(b) - digits(a))[0]: the sort is stable, so the
\* first of the matches with the most digits
MostDigitsFirst(matches) ==
  matches[CHOOSE i \in DOMAIN matches :
            /\ \A j \in DOMAIN matches : CountDigits(matches[j]) <= CountDigits(matches[i])
            /\ \A j \in 1..(i - 1) : CountDigits(matches[j]) < CountDigits(matches[i])]

\* pickPhone without the `: null` arm: sort(...)[0] of no matches is undefined
pickPhoneNoFallback(s, li) ==
  With(PhoneMatchAll(s, li), LAMBDA matches :
    IF Len(matches) > 0 THEN JsStr(MostDigitsFirst(matches)) ELSE JsUndef)

pickPhone(s, li) ==
  With(PhoneMatchAll(s, li), LAMBDA matches :
    IF Len(matches) > 0 THEN JsStr(MostDigitsFirst(matches)) ELSE JsNull)

----------------------------------------------------------------------------
\* extractCouponFields (lib/geo.ts), called with PHONE_RE.lastIndex = li

extractCouponFields(s, li) ==
  [ store |-> JsUndef,
    address |-> JsUndef,
    phone |-> pickPhone(s, li),
    mode |-> detectMode(s),
    location_note |-> JsNull,
    terms |-> extractTerms(s),
    title |-> deriveTitle(s),
    expires_at |-> extractExpiry(s) ]

----------------------------------------------------------------------------
\* Layout-aware extractor (lib/geo.ts): string helpers

\* a.includes(b)
Includes(a, b) == \E i \in 1..(Len(a) - Len(b) + 1) : LitAt(a, i, b)
IncludesI(a, b) == \E i \in 1..(Len(a) - Len(b) + 1) : LitAtI(a, i, b)

\* parts.join(sep)
RECURSIVE Join(_, _)
Join(parts, sep) ==
  IF parts = <<>> THEN <<>>
  ELSE IF Len(parts) = 1 THEN parts[1]
  ELSE parts[1] \o sep \o Join(Tail(parts), sep)

\* the sequence without its elements equal to <<>> : .filter(Boolean) on strings
RECURSIVE NonEmpty(_)
NonEmpty(parts) ==
  IF parts = <<>> THEN <<>>
  ELSE IF Head(parts) = <<>> THEN NonEmpty(Tail(parts))
  ELSE <<Head(parts)>> \o NonEmpty(Tail(parts))

\* s.split(/\n+/)
RECURSIVE NewlineRun(_, _)
NewlineRun(s, i) == IF CharAt(s, i, "\n") THEN 1 + NewlineRun(s, i + 1) ELSE 0
RECURSIVE SplitNewlines(_, _)
SplitNewlines(s, cur) ==
  IF s = <<>> THEN <<cur>>
  ELSE IF s[1] = "\n" THEN <<cur>> \o SplitNewlines(Slice(s, 1 + NewlineRun(s, 1)), <<>>)
  ELSE SplitNewlines(Tail(s), Append(cur, s[1]))

\* s.split(/\n+/).map(s => s.trim()).filter(Boolean)
SplitLines(s) ==
  LET parts == SplitNewlines(s, <<>>) IN
  NonEmpty([k \in 1..Len(parts) |-> Trim(parts[k])])

\* s.split(/\s+/) of a trimmed, non-empty string, as the set of its tokens
RECURSIVE NonSpaceRun(_, _)
NonSpaceRun(s, i) ==
  IF i >= 1 /\ i <= Len(s) /\ ~IsSpace(s[i]) THEN 1 + NonSpaceRun(s, i + 1) ELSE 0
TokenSet(s) ==
  {SubSeq(s, i, i + NonSpaceRun(s, i) - 1) :
     i \in {k \in DOMAIN s : ~IsSpace(s[k]) /\ ~(k > 1 /\ ~IsSpace(s[k - 1]))}}

\* toTitleCase: s.replace(/\w\S*/g, w => w[0].toUpperCase() + w.slice(1).toLowerCase())
\* inWord: the previous character belongs to a match of \w\S* in progress
RECURSIVE TitleCaseFrom(_, _)
TitleCaseFrom(s, inWord) ==
  IF s = <<>> THEN <<>>
  ELSE IF inWord /\ ~IsSpace(s[1]) THEN <<ToLowerChar(s[1])>> \o TitleCaseFrom(Tail(s), TRUE)
  ELSE IF IsWordChar(s[1]) THEN <<ToUpperChar(s[1])>> \o TitleCaseFrom(Tail(s), TRUE)
  ELSE <<s[1]>> \o TitleCaseFrom(Tail(s), FALSE)
toTitleCase(s) == TitleCaseFrom(s, FALSE)

\* normalizeName: s.toLowerCase().replace(/[^a-z0-9]/g, '')
RECURSIVE KeepAlnum(_)
KeepAlnum(s) ==
  IF s = <<>> THEN <<>>
  ELSE IF IsLower(s[1]) \/ IsDigit(s[1]) THEN <<s[1]>> \o KeepAlnum(Tail(s))
  ELSE KeepAlnum(Tail(s))
normalizeName(s) == KeepAlnum(ToLowerCase(s))

HasDigit(s) == \E i \in DOMAIN s : IsDigit(s[i])
CountLetters(s) == Cardinality({i \in DOMAIN s : IsLetter(s[i])})
CountCaps(s) == Cardinality({i \in DOMAIN s : IsUpper(s[i])})

\* ZIP_RE = /\b\d{5}(?:-\d{4})?\b/
ZipAt(s, i) ==
  /\ WordBoundary(s, i)
  /\ \A k \in 0..4 : DigitAt(s, i + k)
  /\ \/ /\ CharAt(s, i + 5, "-")
        /\ \A k \in 6..9 : DigitAt(s, i + k)
        /\ WordBoundary(s, i + 10)
     \/ WordBoundary(s, i + 5)
ZipTest(s) == \E i \in DOMAIN s : ZipAt(s, i)

STREET_SUFFIXES ==
  << <<"S","T">>, <<"S","T","R","E","E","T">>, <<"A","V","E">>, <<"A","V","E","N","U","E">>,
     <<"R","D">>, <<"R","O","A","D">>, <<"B","L","V","D">>,
     <<"B","O","U","L","E","V","A","R","D">>, <<"D","R">>, <<"D","R","I","V","E">>,
     <<"H","W","Y">>, <<"H","I","G","H","W","A","Y">>, <<"L","N">>, <<"L","A","N","E">>,
     <<"C","T">>, <<"C","O","U","R","T">>, <<"P","L">>, <<"P","L","A","C","E">>,
     <<"P","K","W","Y">>, <<"P","A","R","K","W","A","Y">>, <<"W","A","Y">>, <<"T","E","R">>,
     <<"T","E","R","R","A","C","E">>, <<"C","I","R">>, <<"C","I","R","C","L","E">> >>
ADDRESS_HINTS == STREET_SUFFIXES \o << <<"S","T","E">>, <<"S","U","I","T","E">>, <<"#">> >>

\* hasStreetToken: a street suffix or address hint as a space-delimited word of the
\* upper-cased line with '.' and ',' turned into spaces, or a ZIP
hasStreetToken(s) ==
  LET up == <<" ">> \o ToUpperCase(s) \o <<" ">>
      normalized == [i \in 1..Len(up) |-> IF up[i] \in {".", ","} THEN " " ELSE up[i]]
  IN \/ \E k \in DOMAIN STREET_SUFFIXES :
          Includes(normalized, <<" ">> \o STREET_SUFFIXES[k] \o <<" ">>)
     \/ \E k \in DOMAIN ADDRESS_HINTS :
          Includes(normalized, <<" ">> \o ADDRESS_HINTS[k] \o <<" ">>)
     \/ ZipTest(s)

\* ADDRESS_BAD_RE =
\*   /\b(buy\s*\d|free|%|percent|off\b|save\b|coupon|offer|valid only|customer must)\b/i
AddressBadWords ==
  << <<"f","r","e","e">>, <<"%">>, <<"p","e","r","c","e","n","t">>, <<"o","f","f">>,
     <<"s","a","v","e">>, <<"c","o","u","p","o","n">>, <<"o","f","f","e","r">>,
     <<"v","a","l","i","d"," ","o","n","l","y">>,
     <<"c","u","s","t","o","m","e","r"," ","m","u","s","t">> >>

AddressBadAt(s, i) ==
  /\ WordBoundary(s, i)
  /\ \/ /\ LitAtI(s, i, <<"b","u","y">>)
        /\ DigitAt(s, i + 3 + SpaceRun(s, i + 3))
        /\ WordBoundary(s, i + 3 + SpaceRun(s, i + 3) + 1)
     \/ \E k \in DOMAIN AddressBadWords :
          LitAtI(s, i, AddressBadWords[k]) /\ WordBoundary(s, i + Len(AddressBadWords[k]))

AddressBadTest(s) == \E i \in DOMAIN s : AddressBadAt(s, i)

----------------------------------------------------------------------------
\* Brand hints: URL_RE, spacedFromDomainLabel, stitchTopTitle

IsLabelChar(c) == IsLetter(c) \/ IsDigit(c) \/ c = "-"
RECURSIVE LabelRun(_, _)
LabelRun(s, i) ==
  IF i >= 1 /\ i <= Len(s) /\ IsLabelChar(s[i]) THEN 1 + LabelRun(s, i + 1) ELSE 0

TopLevelDomains ==
  << <<"c","o","m">>, <<"n","e","t">>, <<"o","r","g">>, <<"c","o">>, <<"u","s">>,
     <<"e","d","u">> >>

\* ([a-z0-9\-]+)\.(?:com|net|org|co|us|edu))\b at i: [from, to] of the label, <<0, 0>>
\* if no match. The label is greedy and must be followed by '.', which is no label
\* character, so it is the whole run.
UrlLabelAt(s, i) ==
  LET n == LabelRun(s, i) IN
  IF /\ n >= 1
     /\ CharAt(s, i + n, ".")
     /\ \E k \in DOMAIN TopLevelDomains :
          /\ LitAtI(s, i + n + 1, TopLevelDomains[k])
          /\ WordBoundary(s, i + n + 1 + Len(TopLevelDomains[k]))
  THEN <<i, i + n - 1>> ELSE <<0, 0>>

\* the end (exclusive) of https:// or http:// at i, of www. at j; 0 if absent
UrlSchemeEnd(s, i) ==
  IF LitAtI(s, i, <<"h","t","t","p","s",":","/","/">>) THEN i + 8
  ELSE IF LitAtI(s, i, <<"h","t","t","p",":","/","/">>) THEN i + 7
  ELSE 0

UrlWwwEnd(s, j) == IF LitAtI(s, j, <<"w","w","w",".">>) THEN j + 4 ELSE 0

\* URL_RE at i: the label (group 2) of the first attempt that succeeds;
\* (?:https?:\/\/)? and (?:www\.)? are tried present first, then absent
UrlAt(s, i) ==
  IF ~WordBoundary(s, i) THEN <<0, 0>>
  ELSE With(UrlSchemeEnd(s, i), LAMBDA h :
       With((IF h # 0 /\ UrlWwwEnd(s, h) # 0 THEN <<UrlWwwEnd(s, h)>> ELSE <<>>)
            \o (IF h # 0 THEN <<h>> ELSE <<>>)
            \o (IF UrlWwwEnd(s, i) # 0 THEN <<UrlWwwEnd(s, i)>> ELSE <<>>)
            \o <<i>>, LAMBDA starts :
       With({a \in DOMAIN starts : UrlLabelAt(s, starts[a]) # <<0, 0>>}, LAMBDA ok :
         IF ok = {} THEN <<0, 0>>
         ELSE UrlLabelAt(s, starts[CHOOSE a \in ok : \A b \in ok : a <= b]))))

\* allJoined.match(URL_RE)?.[2]: the label of the leftmost match, <<>> if none
UrlLabel(s, from) ==
  With({i \in from..Len(s) : UrlAt(s, i) # <<0, 0>>}, LAMBDA hits :
    IF hits = {} THEN <<>>
    ELSE With(UrlAt(s, CHOOSE i \in hits : \A j \in hits : i <= j), LAMBDA m :
           SubSeq(s, m[1], m[2])))

\* .replace(/([a-z])([A-Z])/g, '$1 $2')
RECURSIVE SplitCamel(_)
SplitCamel(s) ==
  IF Len(s) < 2 THEN s
  ELSE IF IsLower(s[1]) /\ IsUpper(s[2])
       THEN <<s[1], " ", s[2]>> \o SplitCamel(Slice(s, 3))
  ELSE <<s[1]>> \o SplitCamel(Tail(s))

RECURSIVE LetterRun(_, _)
LetterRun(s, i) ==
  IF i >= 1 /\ i <= Len(s) /\ IsLetter(s[i]) THEN 1 + LetterRun(s, i + 1) ELSE 0

MinPseudoWord == 3

\* .replace(/([a-z]{3,})([a-z]{3,})/gi, '$1 $2'): in a run of n >= 6 letters the first
\* group is greedy and leaves the last 3 letters to the second
RECURSIVE SplitStuck(_)
SplitStuck(s) ==
  IF s = <<>> THEN <<>>
  ELSE LET n == LetterRun(s, 1) IN
       IF n >= 2 * MinPseudoWord
       THEN SubSeq(s, 1, n - MinPseudoWord) \o <<" ">>
            \o SubSeq(s, n - MinPseudoWord + 1, n) \o SplitStuck(Slice(s, n + 1))
       ELSE IF n >= 1 THEN SubSeq(s, 1, n) \o SplitStuck(Slice(s, n + 1))
       ELSE <<s[1]>> \o SplitStuck(Tail(s))

spacedFromDomainLabel(label) ==
  LET hy == [i \in 1..Len(label) |-> IF label[i] = "-" THEN " " ELSE label[i]]
  IN toTitleCase(SplitStuck(SplitCamel(hy)))

\* the lines as the layout-aware extractor flattens them: [text, bbox], bbox a record
\* [x, y, w, h] or NoBBox
NoBBox == [none |-> TRUE]
BBoxY(l) == IF l.bbox = NoBBox THEN 0 ELSE l.bbox.y

\* [...lines].sort((a, b) => y(a) - y(b)): stable, as the ranks of the lines
SortedByY(lines) ==
  LET before(a, b) == BBoxY(lines[a]) < BBoxY(lines[b])
                      \/ (BBoxY(lines[a]) = BBoxY(lines[b]) /\ a < b)
      rank(a) == 1 + Cardinality({b \in DOMAIN lines : before(b, a)})
  IN [r \in 1..Len(lines) |-> lines[CHOOSE a \in DOMAIN lines : rank(a) = r]]

StitchStopWords ==
  << <<"w","w","w">>, <<"v","a","l","i","d">>, <<"l","o","c","a","t","i","o","n">>,
     <<"o","n","l","y">>, <<"g","r","a","n","d">>, <<"r","a","p","i","d","s">>,
     <<"c","e","l","e","b","r","a","t","i","o","n">>, <<"d","r">>, <<"n","e">>,
     <<"e","x","c","l","u","d","e","s">> >>

StitchTopN == 5
StitchMaxLen == 14
StitchMaxPicks == 3
StitchMinPicks == 2

StitchQualifies(t) ==
  /\ t # <<>>
  /\ ~HasDigit(t)
  /\ Len(t) <= StitchMaxLen
  /\ ~\E k \in DOMAIN StitchStopWords : IncludesI(t, StitchStopWords[k])

\* the loop of stitchTopTitle over the sorted lines: stops at the first line that
\* does not qualify, or when 3 lines are picked
RECURSIVE StitchPicks(_, _)
StitchPicks(sorted, picks) ==
  IF sorted = <<>> THEN picks
  ELSE With(Trim(Head(sorted).text), LAMBDA t :
       IF ~StitchQualifies(t) THEN picks
       ELSE IF Len(picks) + 1 >= StitchMaxPicks THEN Append(picks, t)
       ELSE StitchPicks(Tail(sorted), Append(picks, t)))

\* the stitched title, <<>> for null
stitchTopTitle(lines) ==
  With(SortedByY(lines), LAMBDA sorted :
  With(StitchPicks(SubSeq(sorted, 1, Min(Len(sorted), StitchTopN)), <<>>), LAMBDA picks :
    IF Len(picks) >= StitchMinPicks THEN toTitleCase(Join(picks, <<" ">>)) ELSE <<>>))

----------------------------------------------------------------------------
\* Field scorers. A store score is the rational n / (1000 * d), as it has the term
\* 2 * caps / letters; every other term is a whole number of thousandths (bounding
\* boxes are given in whole units of the numbers the code computes with).

Excluded == -999

Sc(n, d) == [n |-> n, d |-> d]
ScLess(a, b) == a.n * b.d < b.n * a.d
ScEq(a, b) == a.n * b.d = b.n * a.d
\* a score plus m thousandths
ScPlus(a, m) == Sc(a.n + m * a.d, a.d)

\* inter / Math.max(at.size, bt.size)
TokenOverlapScore(at, bt) ==
  <<Cardinality(at \cap bt), Max(Cardinality(at), Cardinality(bt))>>

fuzzyScoreOf(A, B) ==
  IF A = <<>> \/ B = <<>> THEN <<0, 1>>
  ELSE IF A = B THEN <<1, 1>>
  ELSE IF Includes(A, B) \/ Includes(B, A) THEN <<85, 100>>
  ELSE TokenOverlapScore(TokenSet(A), TokenSet(B))

\* fuzzyScore(a, b) as the fraction <<numerator, denominator>>
fuzzyScore(a, b) == fuzzyScoreOf(Trim(ToLowerCase(a)), Trim(ToLowerCase(b)))

FracGeq(f, num, den) == f[1] * den >= num * f[2]

\* the greatest of the fractions fs
FracMax(fs) ==
  fs[CHOOSE k \in DOMAIN fs : \A j \in DOMAIN fs : fs[k][1] * fs[j][2] >= fs[j][1] * fs[k][2]]

\* Math.max(...brands.map(b => fuzzyScore(line, b)))
BestTokenScore(line, brands) ==
  FracMax([k \in DOMAIN brands |-> fuzzyScore(line, brands[k])])

\* the comparison of one normalized brand with the normalized line
NormNamesMatch(normLine, nb) ==
  /\ nb # <<>>
  /\ normLine # <<>>
  /\ (normLine = nb \/ Includes(normLine, nb) \/ Includes(nb, normLine))

\* the normalized line equals, contains or is contained by the normalized brand,
\* both being non-empty (the loop skips a brand when either is empty)
BrandNameMatch(line, b) == NormNamesMatch(normalizeName(line), normalizeName(b))

\* the boost for the best fuzzyScore: 2.0 from 0.8, 1.0 from 0.6
FuzzyBoost(best) ==
  IF FracGeq(best, 8, 10) THEN 2000
  ELSE IF FracGeq(best, 6, 10) THEN 1000
  ELSE 0

\* brandBoost by fuzzyScore alone, without the comparison of normalized names
brandBoostFuzzyOnly(line, brands) ==
  IF brands = <<>> THEN 0 ELSE FuzzyBoost(BestTokenScore(line, brands))

\* brandBoost in thousandths; brands = <<>> stands for an absent or empty list
brandBoost(line, brands) ==
  IF brands = <<>> THEN 0
  ELSE IF \E k \in DOMAIN brands : BrandNameMatch(line, brands[k]) THEN 2500
  ELSE FuzzyBoost(BestTokenScore(line, brands))

\* the positional terms of the store score, in thousandths
bboxBonus(bbox) ==
  IF bbox = NoBBox THEN 0
  ELSE Max(0, 1200 - bbox.y)
       + Min(1000, 10 * bbox.h)
       + (IF 2 * bbox.x + bbox.w - 400 < 120 /\ 400 - 2 * bbox.x - bbox.w < 120
          THEN 200 ELSE 0)

StoreLongLine == 40

\* the terms of the store score other than 2 * caps / letters, in thousandths
StoreScoreTerms(line, bbox, brands) ==
    (IF ~HasDigit(line) THEN 500 ELSE 0)
  + (IF ~hasStreetToken(line) THEN 800 ELSE 0)
  + brandBoost(line, brands)
  + bboxBonus(bbox)
  - (IF Len(line) > StoreLongLine THEN 500 ELSE 0)

scoreStoreCandidate(line, bbox, brands) ==
  IF Trim(line) = <<>> THEN Sc(Excluded * 1000, 1)
  ELSE With(Max(CountLetters(line), 1), LAMBDA d :
         Sc(2 * 1000 * CountCaps(line) + StoreScoreTerms(line, bbox, brands) * d, d))

AddressMinLen == 8
AddressMaxLen == 90

\* the terms of the address score of a kept line, in thousandths
AddressScoreTerms(raw, idxFromTop, hasPhone) ==
    (IF hasStreetToken(raw) THEN 2500 ELSE 0)
  + (IF ZipTest(raw) THEN 1500 ELSE 0)
  + (IF hasPhone THEN 600 ELSE 0)
  + (IF HasDigit(raw) THEN 400 ELSE 0)
  + Max(0, 800 - idxFromTop * 50)
  - (IF Len(raw) < AddressMinLen \/ Len(raw) > AddressMaxLen THEN 500 ELSE 0)

\* scoreAddressCandidate(line, idxFromTop) called with PHONE_RE.lastIndex = li:
\* [score in thousandths, lastIndex afterwards]. PHONE_RE.test is only reached by a
\* line that is neither empty nor offer language.
scoreAddressCandidate(line, idxFromTop, li) ==
  With(Trim(line), LAMBDA raw :
    IF raw = <<>> THEN [score |-> Excluded * 1000, lastIndex |-> li]
    ELSE IF AddressBadTest(raw) THEN [score |-> Excluded * 1000, lastIndex |-> li]
    ELSE With(PhoneTest(raw, li), LAMBDA hasPhone :
           [score |-> AddressScoreTerms(raw, idxFromTop, hasPhone.found),
            lastIndex |-> hasPhone.lastIndex]))

----------------------------------------------------------------------------
\* extractStoreAndAddressFromBlocks (lib/geo.ts)

\* the lines of one block, each with the block's bbox
LinesOfBlock(parts, bbox) == [k \in 1..Len(parts) |-> [text |-> parts[k], bbox |-> bbox]]

\* blocks flattened to lines, each with its block's bbox; the lines of allText
\* when there are no blocks
RECURSIVE FlattenBlocks(_)
FlattenBlocks(blocks) ==
  IF blocks = <<>> THEN <<>>
  ELSE LinesOfBlock(SplitLines(Head(blocks).text), Head(blocks).bbox)
       \o FlattenBlocks(Tail(blocks))

FlattenLines(blocks, allText) ==
  IF Len(blocks) > 0 THEN FlattenBlocks(blocks)
  ELSE LinesOfBlock(SplitLines(allText), NoBBox)

TopCandidates == 6
StitchBonus == 1000
UrlBonus == 1200

\* urlBrand (<<>> for null), and a candidate pushed when its text is truthy
UrlBrandOf(label) == IF label # <<>> THEN spacedFromDomainLabel(label) ELSE <<>>

ExtraStoreCandidate(t, bonus) ==
  IF t # <<>> THEN <<[text |-> t, bbox |-> NoBBox, bonus |-> bonus]>> ELSE <<>>

\* baseStoreCands: the lines, then the stitched title, then the URL brand
StoreCandidatePool(lines, brands) ==
  With([k \in 1..Len(lines) |-> [text |-> lines[k].text, bbox |-> lines[k].bbox, bonus |-> 0]]
       \o ExtraStoreCandidate(stitchTopTitle(lines), StitchBonus)
       \o ExtraStoreCandidate(
            UrlBrandOf(UrlLabel(Join([k \in 1..Len(lines) |-> lines[k].text], <<" ">>), 1)),
            UrlBonus),
       LAMBDA pool :
         [k \in DOMAIN pool |->
            [text |-> pool[k].text,
             score |-> ScPlus(scoreStoreCandidate(pool[k].text, pool[k].bbox, brands),
                              pool[k].bonus)]])

\* an unstable sort: equal scores are reversed
StoreBeforeReversed(cands, a, b) ==
  ScLess(cands[b].score, cands[a].score) \/ (ScEq(cands[a].score, cands[b].score) /\ a > b)

\* a sorts before b: greater score, equal scores keep their order
StoreBefore(cands, a, b) ==
  ScLess(cands[b].score, cands[a].score) \/ (ScEq(cands[a].score, cands[b].score) /\ a < b)

\* the sorted candidates without .slice(0, 6)
TopOfAll(sorted) == sorted

TopOf(sorted) == SubSeq(sorted, 1, Min(Len(sorted), TopCandidates))

\* cands.sort((a, b) => b.score - a.score).slice(0, 6) for rational scores (stable)
SortStoreCandidates(cands) ==
  TopOf([r \in 1..Len(cands) |->
           cands[CHOOSE a \in DOMAIN cands :
                   1 + Cardinality({b \in DOMAIN cands : StoreBefore(cands, b, a)}) = r]])

\* the text of the first candidate, null when there is none or it is empty
FirstStoreText(storeCandidates) ==
  IF Len(storeCandidates) > 0 /\ storeCandidates[1].text # <<>>
  THEN JsStr(storeCandidates[1].text) ELSE JsNull

\* storeCandidates[0]?.text || null
pickStore(lines, brands) ==
  FirstStoreText(SortStoreCandidates(StoreCandidatePool(lines, brands)))

\* lines.map((l, i) => scoreAddressCandidate(l.text, i)) from PHONE_RE.lastIndex = li:
\* [cands (text and score of every line, in order), lastIndex afterwards]
RECURSIVE ScoreAddressLines(_, _, _, _)
ScoreAddressLines(lines, k, li, acc) ==
  IF k > Len(lines) THEN [cands |-> acc, lastIndex |-> li]
  ELSE With(scoreAddressCandidate(lines[k].text, k - 1, li), LAMBDA r :
         ScoreAddressLines(lines, k + 1, r.lastIndex,
                           Append(acc, [text |-> lines[k].text, score |-> r.score])))

\* a sorts before b: greater score, equal scores keep their order
AddressBefore(cands, a, b) ==
  cands[a].score > cands[b].score \/ (cands[a].score = cands[b].score /\ a < b)

\* cands.sort((a, b) => b.score - a.score).slice(0, 6) (stable)
SortAddressCandidates(cands) ==
  TopOf([r \in 1..Len(cands) |->
           cands[CHOOSE a \in DOMAIN cands :
                   1 + Cardinality({b \in DOMAIN cands : AddressBefore(cands, b, a)}) = r]])

\* what Location.geocodeAsync(text) can do: throw, resolve to no result, or resolve
\* to a list whose first entry is the place of the text
GeocodeOutcomes == {"throw", "empty", "found"}
GeoOf(t) == [lat |-> Len(t), lng |-> CountDigits(t)]

\* geoScore of a candidate that geocoded, in thousandths
geoScore(t) ==
  2000 + (IF ZipTest(t) THEN 300 ELSE 0) + (IF hasStreetToken(t) THEN 200 ELSE 0)

\* the loop body without its try/catch: a throwing lookup rejects the call
onGeocodeSettledUncaught(best, cand, outcome) ==
  IF outcome = "throw" THEN [best EXCEPT !.raised = TRUE]
  ELSE IF outcome = "found" /\ cand.score + geoScore(cand.text) > best.bestScore
  THEN [bestScore |-> cand.score + geoScore(cand.text),
        bestAddress |-> JsStr(cand.text),
        bestGeo |-> GeoOf(cand.text),
        raised |-> FALSE]
  ELSE best

\* the loop body taking the coordinates of every lookup that found a place, also
\* of one that does not beat the best total
onGeocodeSettledLastGeo(best, cand, outcome) ==
  IF outcome = "found" /\ cand.score + geoScore(cand.text) > best.bestScore
  THEN [bestScore |-> cand.score + geoScore(cand.text),
        bestAddress |-> JsStr(cand.text),
        bestGeo |-> GeoOf(cand.text),
        raised |-> FALSE]
  ELSE IF outcome = "found" THEN [best EXCEPT !.bestGeo = GeoOf(cand.text)]
  ELSE best

\* the body of the geocode loop for candidate cand once its lookup has settled:
\* the new [bestScore, bestAddress, bestGeo, raised]
onGeocodeSettled(best, cand, outcome) ==
  IF outcome = "found" /\ cand.score + geoScore(cand.text) > best.bestScore
  THEN [bestScore |-> cand.score + geoScore(cand.text),
        bestAddress |-> JsStr(cand.text),
        bestGeo |-> GeoOf(cand.text),
        raised |-> FALSE]
  ELSE best

NoGeo == [none |-> TRUE]
InitialBest ==
  [bestScore |-> Excluded * 1000, bestAddress |-> JsNull, bestGeo |-> NoGeo, raised |-> FALSE]

\* if (!bestAddress && addressCandidates[0]) bestAddress = addressCandidates[0].text
finalAddress(best, addressCandidates) ==
  IF (best.bestAddress = JsNull \/ best.bestAddress = JsStr(<<>>)) /\ Len(addressCandidates) > 0
  THEN JsStr(addressCandidates[1].text)
  ELSE best.bestAddress

\* the statements after the geocode loop, run with PHONE_RE.lastIndex = li
finishExtract(store, best, addressCandidates, allText, li) ==
  [ store |-> store,
    address |-> finalAddress(best, addressCandidates),
    phone |-> pickPhone(allText, li),
    geo |-> best.bestGeo ]

----------------------------------------------------------------------------
\* The process: one module instance (one PHONE_RE), callers that invoke the two
\* extractors. A caller is a slot of `calls`; an extractStoreAndAddressFromBlocks
\* call runs synchronously up to its first await and between awaits.

Callers == {1, 2}
IdleCall == [pc |-> "idle"]
NoCalls == [s \in Callers |-> IdleCall]

\* after the candidates are scored: the call awaits its first lookup, or returns
CallAfterScoring(in, li0, store, addressCandidates, li) ==
  IF in.tryGeocode /\ Len(addressCandidates) > 0
  THEN [pc |-> "geocode", input |-> in, li0 |-> li0, store |-> store,
        addressCandidates |-> addressCandidates, i |-> 1,
        best |-> InitialBest, answers |-> <<>>]
  ELSE [pc |-> "done", input |-> in, li0 |-> li0, answers |-> <<>>,
        result |-> finishExtract(store, InitialBest, addressCandidates, in.allText, li)]

\* the call record and PHONE_RE.lastIndex when a call entered with lastIndex = li0
\* reaches its first await or its return
RunToFirstAwait(in, li0) ==
  With(FlattenLines(in.blocks, in.allText), LAMBDA lines :
  With(ScoreAddressLines(lines, 1, li0, <<>>), LAMBDA scored :
    [lastIndex |-> scored.lastIndex,
     call |-> CallAfterScoring(in, li0, pickStore(lines, in.brands),
                               SortAddressCandidates(scored.cands), scored.lastIndex)]))

\* the call of caller s runs from its entry to its first await, or to its return
\* when it awaits nothing
StartExtract(s, in) ==
  /\ calls[s].pc = "idle"
  /\ parsed = JsUndef
  /\ calls' = [calls EXCEPT ![s] = RunToFirstAwait(in, lastIndex).call]
  /\ lastIndex' = RunToFirstAwait(in, lastIndex).lastIndex
  /\ UNCHANGED <<text, parsed, arg, ret, storage, os, feed, tasks>>

\* after a lookup settled: the call awaits the next lookup, or returns
CallAfterSettle(c, best, answers, li) ==
  IF best.raised
  THEN [pc |-> "raised", input |-> c.input, li0 |-> c.li0, answers |-> answers]
  ELSE IF c.i < Len(c.addressCandidates)
  THEN [c EXCEPT !.i = c.i + 1, !.best = best, !.answers = answers]
  ELSE [pc |-> "done", input |-> c.input, li0 |-> c.li0, answers |-> answers,
        result |-> finishExtract(c.store, best, c.addressCandidates, c.input.allText, li)]

\* the lookup the call of caller s awaits settles; the call runs to its next await
\* or to its return
GeocodeSettles(s, outcome) ==
  /\ calls[s].pc = "geocode"
  /\ calls' = [calls EXCEPT ![s] =
       CallAfterSettle(calls[s],
                       onGeocodeSettled(calls[s].best,
                                        calls[s].addressCandidates[calls[s].i], outcome),
                       Append(calls[s].answers, outcome), lastIndex)]
  /\ UNCHANGED <<text, parsed, lastIndex, arg, ret, storage, os, feed, tasks>>

\* the caller takes the result (or the rejection) of its call
Return(s) ==
  /\ calls[s].pc \in {"done", "raised"}
  /\ calls' = [calls EXCEPT ![s] = IdleCall]
  /\ UNCHANGED <<text, parsed, lastIndex, arg, ret, storage, os, feed, tasks>>

\* a synchronous extractCouponFields(t) call
TextOnlyCall(t) ==
  /\ parsed = JsUndef
  /\ text' = t
  /\ parsed' = extractCouponFields(t, lastIndex)
  /\ UNCHANGED <<lastIndex, calls, arg, ret, storage, os, feed, tasks>>

\* the caller takes the ParsedCoupon
TakeParsed ==
  /\ parsed # JsUndef
  /\ text' = <<>>
  /\ parsed' = JsUndef
  /\ UNCHANGED <<lastIndex, calls, arg, ret, storage, os, feed, tasks>>

\* Inputs: OCR blocks out of a vocabulary of coupon lines, each with its box
LineVocabulary ==
  { [text |-> <<"W","E","N","D","Y","S">>, bbox |-> [x |-> 150, y |-> 100, w |-> 100, h |-> 60]],
    [text |-> <<"1","2"," ","M","a","i","n"," ","S","t">>,
     bbox |-> [x |-> 20, y |-> 300, w |-> 200, h |-> 30]],
    [text |-> <<"(","6","1","6",")"," ","5","5","5","-","0","1","9","8">>,
     bbox |-> [x |-> 20, y |-> 400, w |-> 200, h |-> 30]],
    [text |-> <<"5","5","5","-","1","2","3","4">>,
     bbox |-> [x |-> 20, y |-> 500, w |-> 200, h |-> 30]],
    [text |-> <<"F","R","E","E"," ","2">>,
     bbox |-> [x |-> 150, y |-> 200, w |-> 100, h |-> 120]],
    [text |-> <<"w","e","n","d","y","s",".","c","o","m">>,
     bbox |-> [x |-> 20, y |-> 1300, w |-> 200, h |-> 20]] }

\* sequences of distinct elements of V of length at most n
RECURSIVE DistinctSeqs(_, _)
DistinctSeqs(V, n) ==
  IF n = 0 THEN {<<>>}
  ELSE With(DistinctSeqs(V, n - 1), LAMBDA shorter :
         shorter \cup UNION {{Append(q, v) : v \in V \ Range(q)} :
                               q \in {u \in shorter : Len(u) = n - 1}})

MaxLines == 2
MaxConcurrentLines == 1

\* two of the KNOWN_BRANDS of the scan screen
KnownBrands == << <<"W","e","n","d","y","'","s">>, <<"T","a","c","o"," ","B","e","l","l">> >>

\* a scan of the given blocks: allText is the blocks' texts joined by newlines. The
\* scan screen passes the blocks and its brand list; a bare call passes neither, so
\* that the lines are taken from allText.
ScanInputs(n) ==
  { [blocks |-> IF asApp THEN q ELSE <<>>,
     allText |-> Join([k \in 1..Len(q) |-> q[k].text], <<"\n">>),
     brands |-> IF asApp THEN KnownBrands ELSE <<>>,
     tryGeocode |-> tryGeocode] :
      q \in DistinctSeqs(LineVocabulary, n), asApp \in BOOLEAN, tryGeocode \in BOOLEAN }

InitProcess ==
  /\ text = <<>>
  /\ parsed = JsUndef
  /\ lastIndex = 0
  /\ calls = NoCalls
  /\ arg = <<>>
  /\ ret = JsUndef
  /\ NoDevice

\* Spec: one caller, one call at a time (the scan screen starts no scan while one
\* is in progress)
Scans == ScanInputs(MaxLines)
ScanTexts == {in.allText : in \in Scans}

Start1 ==
  /\ calls[1].pc = "idle"
  /\ parsed = JsUndef
  /\ \E in \in Scans : StartExtract(1, in)
Settle1 ==
  /\ calls[1].pc = "geocode"
  /\ \E o \in GeocodeOutcomes : GeocodeSettles(1, o)
Return1 == Return(1)
TextOnly1 ==
  /\ calls[1].pc = "idle"
  /\ parsed = JsUndef
  /\ \E t \in ScanTexts : TextOnlyCall(t)

Next == Start1 \/ Settle1 \/ Return1 \/ TextOnly1 \/ TakeParsed

Spec == InitProcess /\ [][Next]_vars

\* SpecConcurrent: two callers whose calls interleave at the awaits
\* (calls that await a lookup, made as the scan screen makes them)
ConcurrentScans ==
  {in \in ScanInputs(MaxConcurrentLines) : in.tryGeocode /\ in.blocks # <<>>}

StartAny ==
  \E s \in Callers :
    /\ calls[s].pc = "idle"
    /\ parsed = JsUndef
    /\ \E in \in ConcurrentScans : StartExtract(s, in)
SettleAny ==
  \E s \in Callers :
    /\ calls[s].pc = "geocode"
    /\ \E o \in GeocodeOutcomes : GeocodeSettles(s, o)
ReturnAny == \E s \in Callers : Return(s)

NextConcurrent == StartAny \/ SettleAny \/ ReturnAny

SpecConcurrent == InitProcess /\ [][NextConcurrent]_vars

----------------------------------------------------------------------------
\* The result of a call made alone: extractStoreAndAddressFromBlocks(in) run from
\* PHONE_RE.lastIndex = li with no other call in between, its lookups answered by
\* answers in order
RECURSIVE GeocodeLoop(_, _, _, _)
GeocodeLoop(best, cands, answers, k) ==
  IF k > Len(cands) \/ k > Len(answers) THEN best
  ELSE GeocodeLoop(onGeocodeSettled(best, cands[k], answers[k]), cands, answers, k + 1)

\* the call run alone from its scored lines on
RunAloneFrom(in, answers, lines, scored) ==
  With(SortAddressCandidates(scored.cands), LAMBDA addressCandidates :
    finishExtract(pickStore(lines, in.brands),
                  IF in.tryGeocode THEN GeocodeLoop(InitialBest, addressCandidates, answers, 1)
                  ELSE InitialBest,
                  addressCandidates, in.allText, scored.lastIndex))

RunAlone(in, answers, li) ==
  With(FlattenLines(in.blocks, in.allText), LAMBDA lines :
    RunAloneFrom(in, answers, lines, ScoreAddressLines(lines, 1, li, <<>>)))

----------------------------------------------------------------------------
\* SpecText: the text-only extractor applied to one text

\* all sequences over the set A of length at most n
RECURSIVE SeqsUpTo(_, _)
SeqsUpTo(A, n) ==
  IF n = 0 THEN {<<>>}
  ELSE With(SeqsUpTo(A, n - 1), LAMBDA shorter :
         shorter \cup {Append(t, c) : t \in {u \in shorter : Len(u) = n - 1}, c \in A})

MaxPercentLen == 5
PercentAlphabet == {"0", "1", "5", "%"}
PercentTexts == SeqsUpTo(PercentAlphabet, MaxPercentLen)

\* dated texts: an optional label, then month/day/year as written
DateLabels == {<<>>, <<"E","x","p","i","r","e","s"," ">>, <<"v","a","l","i","d"," ","u","n","t","i","l"," ">>}
DateFirsts == {<<"1","2">>, <<"1","3">>, <<"0","2">>, <<"5">>}
DateSeconds == {<<"3","1">>, <<"0","5">>, <<"3","0">>}
DateYears == {<<"2","6">>, <<"2","0","2","6">>}
NumericDateTexts ==
  {l \o a \o <<"/">> \o b \o <<"/">> \o y :
     l \in DateLabels, a \in DateFirsts, b \in DateSeconds, y \in DateYears}
LongDateTexts ==
  { <<"V","a","l","i","d"," ","u","n","t","i","l"," ","J","a","n"," ","5",","," ","2","0","2","6">>,
    <<"J","a","n","u","a","r","y"," ","5"," ","2","0","2","6">>,
    <<"S","e","p","t","."," ","1","5"," ","2","6">> }

TextInputs == PercentTexts \cup NumericDateTexts \cup LongDateTexts \cup ScanTexts

InitText ==
  /\ text \in TextInputs
  /\ parsed = JsUndef
  /\ lastIndex = 0
  /\ calls = NoCalls
  /\ arg = <<>>
  /\ ret = JsUndef
  /\ NoDevice

CallExtractCouponFields ==
  /\ parsed = JsUndef
  /\ parsed' = extractCouponFields(text, lastIndex)
  /\ UNCHANGED <<text, lastIndex, calls, arg, ret, storage, os, feed, tasks>>

NextText == CallExtractCouponFields

SpecText == InitText /\ [][NextText]_vars

----------------------------------------------------------------------------
\* Claims about the text-only extractor

IsNullOrStr(v) == v = JsNull \/ v.t = "string"

\* C1: for every text extractCouponFields returns a ParsedCoupon record (phone,
\* title and expires_at null or a string, mode one of '', 'dine-in', 'pickup',
\* terms a string, location_note null); for the empty text phone, title and
\* expires_at are null, mode is '' and terms is empty.
C1_WellFormedResult ==
  parsed # JsUndef =>
    /\ DOMAIN parsed = {"store", "address", "phone", "mode", "location_note",
                        "terms", "title", "expires_at"}
    /\ IsNullOrStr(parsed.phone)
    /\ IsNullOrStr(parsed.title)
    /\ IsNullOrStr(parsed.expires_at)
    /\ IsNullOrStr(parsed.terms)
    /\ parsed.mode \in {"", "dine-in", "pickup"}
    /\ parsed.location_note = JsNull
    /\ (text = <<>> =>
          /\ parsed.phone = JsNull
          /\ parsed.title = JsNull
          /\ parsed.expires_at = JsNull
          /\ parsed.mode = ""
          /\ parsed.terms \in {JsNull, JsStr(<<>>)})

C1_Witness == text = <<>> /\ parsed # JsUndef

\* the numbers written directly before a '%': the values of the maximal digit
\* runs that end right before a '%'
RECURSIVE DigitRunBack(_, _)
DigitRunBack(s, i) == IF DigitAt(s, i) THEN 1 + DigitRunBack(s, i - 1) ELSE 0
WrittenPercents(s) ==
  {ParseInt(SubSeq(s, i - DigitRunBack(s, i - 1), i - 1)) :
     i \in {k \in DOMAIN s : s[k] = "%" /\ DigitAt(s, k - 1)}}
SetMax(S) == CHOOSE m \in S : \A x \in S : x <= m

\* C4: the percentage of the title is the maximum of the numbers written directly
\* before a '%' whose full written value is in [5, 100]; without such a number
\* there is no percentage title.
C4_PercentIsMaxWritten ==
  (parsed # JsUndef /\ text \in PercentTexts) =>
    LET valid == {v \in WrittenPercents(text) : v >= 5 /\ v <= 100} IN
    IF valid = {} THEN parsed.title = JsNull
    ELSE parsed.title = JsStr(NumToStr(SetMax(valid)) \o <<"%"," ","o","f","f">>)

----------------------------------------------------------------------------
\* Claims about calls in one process

\* C2: whatever calls were made before, extractCouponFields and
\* extractStoreAndAddressFromBlocks without geocoding return for an input what a
\* fresh process (PHONE_RE.lastIndex = 0) returns for it.
C2_SameAsFreshProcess ==
  /\ parsed # JsUndef => parsed = extractCouponFields(text, 0)
  /\ (calls[1].pc = "done" /\ ~calls[1].input.tryGeocode) =>
        calls[1].result = RunAlone(calls[1].input, <<>>, 0)

\* C3: a call that interleaved with another call at its awaits returns what it
\* returns when run alone from the same start with the same geocode answers.
C3_ConcurrentCallsIndependent ==
  \A s \in Callers :
    calls[s].pc = "done" =>
      calls[s].result = RunAlone(calls[s].input, calls[s].answers, calls[s].li0)

\* the match with the most digits, the first of them on a tie
MostDigitsEarliest(matches) ==
  IF matches = <<>> THEN JsNull
  ELSE JsStr(matches[CHOOSE i \in DOMAIN matches :
                /\ \A j \in DOMAIN matches : CountDigits(matches[j]) <= CountDigits(matches[i])
                /\ \A j \in 1..(i - 1) : CountDigits(matches[j]) < CountDigits(matches[i])])

\* the phone-pattern match of the whole text t with the most digits, the first of
\* them on a tie; null when t has no match
BestPhoneOfText(t) == MostDigitsEarliest(PhoneMatchesFrom(t, 1))

\* C5: the phone both extractors return is the phone-pattern match of the full
\* text with the most digits (the first on a tie), and null only without a match.
C5_PhoneIsBestMatchOfFullText ==
  /\ parsed # JsUndef => parsed.phone = BestPhoneOfText(text)
  /\ calls[1].pc = "done" =>
        calls[1].result.phone = BestPhoneOfText(calls[1].input.allText)

\* C6: a line of offer language is never the address a call returns, whatever the
\* lines and the geocode outcomes.
C6_OfferLineNeverAddress ==
  calls[1].pc = "done" =>
    \/ calls[1].result.address = JsNull
    \/ ~AddressBadTest(calls[1].result.address.v)

\* the candidates whose lookup found a place, in order
RECURSIVE FoundCandidates(_, _, _)
FoundCandidates(cands, answers, k) ==
  IF k > Len(cands) THEN <<>>
  ELSE (IF answers[k] = "found" THEN <<cands[k]>> ELSE <<>>)
       \o FoundCandidates(cands, answers, k + 1)

\* the geocode loop over the candidates found, all lookups succeeding
ReRankedOver(cands, found) ==
  With(GeocodeLoop(InitialBest, found, [k \in 1..Len(found) |-> "found"], 1), LAMBDA best :
    [address |-> finalAddress(best, cands), geo |-> best.bestGeo])

\* the address and geo of a call whose lookups all succeed, made over the
\* candidates found only; the fallback still takes the first of all candidates
ReRankedWithout(in, answers, li) ==
  With(SortAddressCandidates(
         ScoreAddressLines(FlattenLines(in.blocks, in.allText), 1, li, <<>>).cands),
       LAMBDA cands : ReRankedOver(cands, FoundCandidates(cands, answers, 1)))

\* result of c against the call without geocoding (off) and the re-ranking (rr)
GeocodeOnlyMovesAddress(c, off, rr) ==
  /\ c.result.store = off.store
  /\ c.result.phone = off.phone
  /\ c.answers # <<>> => /\ c.result.address = rr.address
                         /\ c.result.geo = rr.geo

\* C10: whatever the lookups do, the call returns and does not raise; its store and
\* phone are those of the same call with geocoding disabled; its address and geo
\* are those of the re-ranking over the candidates that geocoded.
C10_GeocodeFailureNotFatal ==
  /\ calls[1].pc # "raised"
  /\ calls[1].pc = "done" =>
       GeocodeOnlyMovesAddress(
         calls[1],
         RunAlone([calls[1].input EXCEPT !.tryGeocode = FALSE], <<>>, calls[1].li0),
         ReRankedWithout(calls[1].input, calls[1].answers, calls[1].li0))

C10_Witness ==
  /\ calls[1].pc = "done"
  /\ "throw" \in Range(calls[1].answers)
  /\ "found" \in Range(calls[1].answers)
  /\ calls[1].result.geo # NoGeo

----------------------------------------------------------------------------
\* detectExpiryISO, toISO, numericToISO and toISODateOnly of lib/ocr.ts

IsLeapYear(y) == (y % 4 = 0 /\ y % 100 # 0) \/ y % 400 = 0
DaysInMonth(y, m) ==
  IF m = 2 THEN (IF IsLeapYear(y) THEN 29 ELSE 28)
  ELSE IF m \in {4, 6, 9, 11} THEN 30 ELSE 31

\* day d counted from the first of month m (1..12) of year y, as a calendar date:
\* days past the end of the month run into the next months, day 0 is the last
\* day of the month before
RECURSIVE DayOfMonth(_, _, _)
DayOfMonth(y, m, d) ==
  IF d < 1
  THEN LET py == IF m = 1 THEN y - 1 ELSE y
           pm == IF m = 1 THEN 12 ELSE m - 1
       IN DayOfMonth(py, pm, d + DaysInMonth(py, pm))
  ELSE IF d > DaysInMonth(y, m)
  THEN DayOfMonth(IF m = 12 THEN y + 1 ELSE y, IF m = 12 THEN 1 ELSE m + 1,
                  d - DaysInMonth(y, m))
  ELSE [year |-> y, month |-> m, date |-> d]

\* new Date(year, monthIndex, day) for year >= 100: the month index is taken
\* modulo 12 with the years carried, then the day is counted from that month
NewDate(year, monthIndex, day) ==
  DayOfMonth(year + (monthIndex \div 12), (monthIndex % 12) + 1, day)

\* String(n).padStart(2, "0")
PadStart2(n) == IF n < 10 THEN <<"0">> \o NumToStr(n) ELSE NumToStr(n)

toISODateOnly(d) ==
  NumToStr(d.year) \o <<"-">> \o PadStart2(d.month) \o <<"-">> \o PadStart2(d.date)

IsSlashDash(c) == c \in {"/", "-"}
SlashDashAt(s, i) == i >= 1 /\ i <= Len(s) /\ IsSlashDash(s[i])

\* s.split(/[\/\-]/) from position i, cur being the part under way
RECURSIVE SplitSlashDash(_, _, _)
SplitSlashDash(s, i, cur) ==
  IF i > Len(s) THEN <<cur>>
  ELSE IF IsSlashDash(s[i]) THEN <<cur>> \o SplitSlashDash(s, i + 1, <<>>)
  ELSE SplitSlashDash(s, i + 1, Append(cur, s[i]))

\* numericToISO of a matched a/b/c (three runs of digits); the Date is never
\* invalid, so the result is never null
numericToISO(s) ==
  LET parts == SplitSlashDash(s, 1, <<>>)
      a == ParseInt(Trim(parts[1]))
      b == ParseInt(Trim(parts[2]))
      c == ParseInt(Trim(parts[3]))
      yy == IF c < 100 THEN c + 2000 ELSE c
      asWritten == a >= 1 /\ a <= 12 /\ b >= 1 /\ b <= 31
      mm == IF asWritten THEN a ELSE b
      dd == IF asWritten THEN b ELSE a
  IN JsStr(toISODateOnly(NewDate(yy, mm - 1, dd)))

\* ((?:\d{1,2})[\/\-](?:\d{1,2})[\/\-](?:\d{2,4})) at i: the end (exclusive) of
\* the match, 0 if none; each \d{1,2} tries two digits, then one
OcrNumericEndAt(s, i) ==
  LET yearEnd(k) == IF DigitRun(s, k) >= 2 THEN k + Min(DigitRun(s, k), 4) ELSE 0
      second(k) == [n \in 1..2 |->
                      IF DigitRun(s, k) >= 3 - n /\ SlashDashAt(s, k + 3 - n)
                      THEN yearEnd(k + 4 - n) ELSE 0]
  IN FirstOk(Flat([n \in 1..2 |->
                     IF DigitRun(s, i) >= 3 - n /\ SlashDashAt(s, i + 3 - n)
                     THEN second(i + 4 - n) ELSE <<>>]))

RECURSIVE OcrNumericSearch(_, _)
OcrNumericSearch(s, from) ==
  IF from > Len(s) THEN 0
  ELSE IF OcrNumericEndAt(s, from) # 0 THEN from
  ELSE OcrNumericSearch(s, from + 1)

\* the month of the three-letter name at i (1..12), 0 if there is none
OcrMonthAt(s, i) ==
  LET ms == {m \in 1..Len(MonthNames) : LitAtI(s, i, MonthNames[m].abbr)} IN
  IF ms = {} THEN 0 ELSE CHOOSE m \in ms : TRUE

\* ((?:jan|...|dec)[a-z]*\s+\d{1,2}(?:,\s*\d{2,4})?) at i, case-insensitive: the
\* month, the day and year as written (year <<>> when the optional part is
\* absent) and the end (exclusive) of the match; end = 0 if there is no match
OcrMonthMatchAt(s, i) ==
  LET m == OcrMonthAt(s, i)
      p == i + 3 + LetterRun(s, i + 3)
      k == p + SpaceRun(s, p)
      q == k + Min(DigitRun(s, k), 2)
      ys == q + 1 + SpaceRun(s, q + 1)
      ye == ys + Min(DigitRun(s, ys), 4)
  IN IF m = 0 \/ k = p \/ q = k THEN [end |-> 0]
     ELSE IF CharAt(s, q, ",") /\ ye - ys >= 2
     THEN [end |-> ye, month |-> m, day |-> SubSeq(s, k, q - 1),
           year |-> SubSeq(s, ys, ye - 1)]
     ELSE [end |-> q, month |-> m, day |-> SubSeq(s, k, q - 1), year |-> <<>>]

RECURSIVE OcrMonthSearch(_, _)
OcrMonthSearch(s, from) ==
  IF from > Len(s) THEN 0
  ELSE IF OcrMonthMatchAt(s, from).end # 0 THEN from
  ELSE OcrMonthSearch(s, from + 1)

\* toISO of a month match: new Date(string) of a string that is not in the ISO
\* format is read by an engine-specific parser. engineReads = FALSE: the engine
\* gives an invalid Date. engineReads = TRUE: it reads month, day and year as the
\* legacy parsers do: no year is 2001, a two-digit year below 50 is 20yy and
\* another one 19yy, a day up to 31 past the end of the month runs into the next.
toISO(mt, engineReads) ==
  LET d == ParseInt(mt.day)
      y == IF mt.year = <<>> THEN 2001
           ELSE IF Len(mt.year) > 2 THEN ParseInt(mt.year)
           ELSE IF ParseInt(mt.year) < 50 THEN 2000 + ParseInt(mt.year)
           ELSE 1900 + ParseInt(mt.year)
  IN IF ~engineReads \/ d < 1 \/ d > 31 \/ y < 100 THEN JsNull
     ELSE JsStr(toISODateOnly(NewDate(y, mt.month - 1, d)))

detectExpiryISO(t, engineReads) ==
  LET mi == OcrMonthSearch(t, 1)
      iso == IF mi = 0 THEN JsNull ELSE toISO(OcrMonthMatchAt(t, mi), engineReads)
      ni == OcrNumericSearch(t, 1)
  IN IF iso # JsNull THEN iso
     ELSE IF ni # 0 THEN numericToISO(SubSeq(t, ni, OcrNumericEndAt(t, ni) - 1))
     ELSE JsNull

\* SpecExpiry: detectExpiryISO applied to one dated text
OtherDates == {<<"5","/","0","5","/","2","6"," ">>, <<"J","a","n"," ","5",","," ","2","0","2","6"," ">>, <<"S","a","l","e"," ","0","2","/","0","5","/","2","0","2","6"," ">>}
LabelledDates == {<<"E","x","p","i","r","e","s"," ","1","2","/","3","1","/","2","6">>, <<"e","x","p"," ","1","2","/","3","1","/","2","0","2","6">>, <<"V","a","l","i","d"," ","t","h","r","u"," ","1","2","-","3","1","-","2","6">>}
TwoDateTexts ==
  {o \o l : o \in OtherDates, l \in LabelledDates} \cup
  {l \o <<" ","o","r"," ">> \o o : o \in OtherDates, l \in LabelledDates}

ExpiryTexts == NumericDateTexts \cup LongDateTexts \cup TwoDateTexts

InitExpiry ==
  /\ text = <<>>
  /\ parsed = JsUndef
  /\ lastIndex = 0
  /\ calls = NoCalls
  /\ arg \in ExpiryTexts
  /\ ret = JsUndef
  /\ NoDevice

CallDetectExpiryISO ==
  /\ ret = JsUndef
  /\ \E engineReads \in BOOLEAN : ret' = detectExpiryISO(arg, engineReads)
  /\ UNCHANGED <<text, parsed, lastIndex, calls, arg, storage, os, feed, tasks>>

NextExpiry == CallDetectExpiryISO

SpecExpiry == InitExpiry /\ [][NextExpiry]_vars

----------------------------------------------------------------------------
\* Claims about expiry dates

\* YYYY-MM-DD
IsIsoDate(s) ==
  /\ Len(s) = 10
  /\ \A i \in {1, 2, 3, 4, 6, 7, 9, 10} : IsDigit(s[i])
  /\ s[5] = "-"
  /\ s[8] = "-"

\* C7: the expires_at of the ParsedCoupon is null or a date of the form
\* YYYY-MM-DD, never the substring as it is written in the text.
C7_ExpiresAtIsIsoDate ==
  parsed # JsUndef =>
    \/ parsed.expires_at = JsNull
    \/ IsIsoDate(parsed.expires_at.v)

\* the numbers a, b of the numeric date a/b/y written in t
WrittenDateFields(t) ==
  LET i == CHOOSE k \in DOMAIN t : IsDigit(t[k]) /\ \A j \in 1..(k - 1) : ~IsDigit(t[j])
      parts == SplitSlashDash(Slice(t, i), 1, <<>>)
  IN [a |-> ParseInt(parts[1]), b |-> ParseInt(parts[2])]

\* C8: for a numeric date a/b/y the result has month a and day b when a is in
\* 1..12 and b in 1..31, and month b and day a otherwise; every result that is
\* not null has a month in 1..12 and a day in 1..31, the numbers of the text.
C8_NumericDateSwapRule ==
  (ret # JsUndef /\ ret # JsNull /\ arg \in NumericDateTexts) =>
    LET w == WrittenDateFields(arg)
        asWritten == w.a >= 1 /\ w.a <= 12 /\ w.b >= 1 /\ w.b <= 31
        iso == SplitSlashDash(ret.v, 1, <<>>)
        month == ParseInt(iso[2])
        day == ParseInt(iso[3])
    IN /\ month = (IF asWritten THEN w.a ELSE w.b)
       /\ day = (IF asWritten THEN w.b ELSE w.a)
       /\ month >= 1 /\ month <= 12
       /\ day >= 1 /\ day <= 31

----------------------------------------------------------------------------
\* SpecStore: scoreStoreCandidate applied to one line, its box and a brand list

StoreLines ==
  { <<"W","E","N","D","Y","S">>,
    <<"W","e","n","d","y","'","s"," ","G","r","i","l","l">>,
    <<"T","A","C","O"," ","B","E","L","L">>,
    <<"B","E","L","L"," ","T","A","C","O">>,
    <<"T","A","C","O"," ","X"," ","B","E","L","L">>,
    <<"t","a","c","o"," ","b","e","l","l">>,
    <<"W","E","L","C","O","M","E">>,
    <<"1","2"," ","M","A","I","N"," ","S","T">>,
    <<"*","*","*">>,
    <<"&">>,
    <<"T","A","C","O"," ","B","E","L","L"," ","R","E","S","T","A","U","R","A","N","T"," ","O","F"," ","W","E","S","T","E","R","N"," ","M","I","C","H","I","G","A","N"," ","I","N","C">> }

StoreBoxes ==
  { NoBBox,
    [x |-> 150, y |-> 100, w |-> 100, h |-> 60],
    [x |-> 20, y |-> 1300, w |-> 200, h |-> 20] }

StoreBrandLists == { <<>>, KnownBrands, << <<"A","&","W">> >> }

InitStore ==
  /\ text = <<>>
  /\ parsed = JsUndef
  /\ lastIndex = 0
  /\ calls = NoCalls
  /\ arg \in [line : StoreLines, bbox : StoreBoxes, brands : StoreBrandLists]
  /\ ret = JsUndef
  /\ NoDevice

CallScoreStoreCandidate ==
  /\ ret = JsUndef
  /\ ret' = scoreStoreCandidate(arg.line, arg.bbox, arg.brands)
  /\ UNCHANGED <<text, parsed, lastIndex, calls, arg, storage, os, feed, tasks>>

NextStore == CallScoreStoreCandidate

SpecStore == InitStore /\ [][NextStore]_vars

----------------------------------------------------------------------------
\* Claims about the store score

\* the line, or the brand, stripped of non-alphanumerics and lower-cased
Stripped(s) == SelectSeq(ToLowerCase(s), LAMBDA c : IsLetter(c) \/ IsDigit(c))

\* one of two strings equals, contains or is contained by the other
OneHoldsOther(a, b) == a = b \/ Includes(a, b) \/ Includes(b, a)

\* token-overlap similarity of a and b as <<numerator, denominator>>: the common
\* tokens of the lower-cased trimmed strings over the larger number of tokens
TokenOverlap(a, b) ==
  LET at == TokenSet(Trim(ToLowerCase(a)))
      bt == TokenSet(Trim(ToLowerCase(b)))
  IN IF at = {} \/ bt = {} THEN <<0, 1>>
     ELSE <<Cardinality(at \cap bt), Max(Cardinality(at), Cardinality(bt))>>

\* the bonus for a best similarity among sims (a set of fractions)
BonusOfSimilarity(sims) ==
  IF \E f \in sims : 10 * f[1] >= 8 * f[2] THEN 2000
  ELSE IF \E f \in sims : 10 * f[1] >= 6 * f[2] THEN 1000
  ELSE 0

\* the brand bonus in thousandths: the score with the brand list less the score
\* of the same line and box without one
BrandBonusGiven ==
  LET plain == scoreStoreCandidate(arg.line, arg.bbox, <<>>)
  IN (ret.n * plain.d - plain.n * ret.d) \div (ret.d * plain.d)

AllCapsNoDigits(line) ==
  /\ CountLetters(line) > 0
  /\ CountCaps(line) = CountLetters(line)
  /\ ~HasDigit(line)

\* a line that matches a brand, is all caps and has no digit outscores every
\* line in the same box that gets no brand bonus; the brand list lowers no score
BrandConsequences(matched) ==
  /\ (matched /\ AllCapsNoDigits(arg.line)) =>
        \A other \in StoreLines :
          ScEq(scoreStoreCandidate(other, arg.bbox, arg.brands),
               scoreStoreCandidate(other, arg.bbox, <<>>))
            => ScLess(scoreStoreCandidate(other, arg.bbox, arg.brands), ret)
  /\ ~ScLess(ret, scoreStoreCandidate(arg.line, arg.bbox, <<>>))

\* C9 as stated: the bonus is 2.5 when the stripped line equals, contains or is
\* contained by a stripped brand; otherwise 2.0, 1.0 or 0 by the best token
\* overlap (>= 0.8, >= 0.6, lower); with the consequences above.
C9_BrandBonusAsStated ==
  (ret # JsUndef /\ arg.brands # <<>>) =>
    LET brands == Range(arg.brands)
        matched == \E b \in brands : OneHoldsOther(Stripped(arg.line), Stripped(b))
    IN /\ BrandBonusGiven =
            IF matched THEN 2500
            ELSE BonusOfSimilarity({TokenOverlap(arg.line, b) : b \in brands})
       /\ BrandConsequences(matched)

\* C9: the bonus is 2.5 when the stripped line and a stripped brand are both
\* non-empty and one equals, contains or is contained by the other; otherwise
\* 2.0, 1.0 or 0 by the best similarity (>= 0.8, >= 0.6, lower), the similarity
\* being 1 for equal lower-cased trimmed strings, 0.85 when one contains the
\* other, else the token overlap; with the consequences above.
C9_BrandBonus ==
  (ret # JsUndef /\ arg.brands # <<>>) =>
    LET brands == Range(arg.brands)
        matched == \E b \in brands :
                     /\ Stripped(arg.line) # <<>>
                     /\ Stripped(b) # <<>>
                     /\ OneHoldsOther(Stripped(arg.line), Stripped(b))
        sim(b) == LET A == Trim(ToLowerCase(arg.line))
                      B == Trim(ToLowerCase(b))
                  IN IF A = <<>> \/ B = <<>> THEN <<0, 1>>
                     ELSE IF A = B THEN <<1, 1>>
                     ELSE IF OneHoldsOther(A, B) THEN <<85, 100>>
                     ELSE TokenOverlap(arg.line, b)
    IN /\ BrandBonusGiven =
            IF matched THEN 2500 ELSE BonusOfSimilarity({sim(b) : b \in brands})
       /\ BrandConsequences(matched)

C9_Witness ==
  /\ ret # JsUndef
  /\ arg.brands = KnownBrands
  /\ arg.bbox # NoBBox
  /\ AllCapsNoDigits(arg.line)
  /\ BrandBonusGiven = 2500
  /\ \E other \in StoreLines : scoreStoreCandidate(other, arg.bbox, arg.brands)
                                 = scoreStoreCandidate(other, arg.bbox, <<>>)

----------------------------------------------------------------------------
\* SpecGeocode: one call at a time over scans of up to MaxGeocodeLines lines, more
\* lines than the address candidates kept

GeocodeLines ==
  << [text |-> <<"W","E","N","D","Y","S">>, bbox |-> [x |-> 150, y |-> 100, w |-> 100, h |-> 60]],
     [text |-> <<"O","P","E","N"," ","L","A","T","E">>, bbox |-> [x |-> 150, y |-> 200, w |-> 100, h |-> 30]],
     [text |-> <<"1","2"," ","M","a","i","n"," ","S","t">>, bbox |-> [x |-> 20, y |-> 300, w |-> 200, h |-> 30]],
     [text |-> <<"G","r","a","n","d"," ","R","a","p","i","d","s"," ","M","I"," ","4","9","5","0","3">>, bbox |-> [x |-> 20, y |-> 340, w |-> 200, h |-> 30]],
     [text |-> <<"(","6","1","6",")"," ","5","5","5","-","0","1","9","8">>, bbox |-> [x |-> 20, y |-> 400, w |-> 200, h |-> 30]],
     [text |-> <<"F","R","E","E"," ","2">>, bbox |-> [x |-> 150, y |-> 500, w |-> 100, h |-> 120]],
     [text |-> <<"S","u","i","t","e"," ","4">>, bbox |-> [x |-> 20, y |-> 600, w |-> 200, h |-> 30]],
     [text |-> <<"w","e","n","d","y","s",".","c","o","m">>, bbox |-> [x |-> 20, y |-> 1300, w |-> 200, h |-> 20]],
     [text |-> <<"L","u","n","c","h">>, bbox |-> [x |-> 20, y |-> 1400, w |-> 200, h |-> 20]] >>

MaxGeocodeLines == 7

\* the scan screen's call on the first n of the lines, and the same call with
\* tryGeocode false
GeocodeScans ==
  { [blocks |-> SubSeq(GeocodeLines, 1, n),
     allText |-> Join([k \in 1..n |-> GeocodeLines[k].text], <<"\n">>),
     brands |-> KnownBrands,
     tryGeocode |-> tryGeocode] :
      n \in 0..Min(MaxGeocodeLines, Len(GeocodeLines)), tryGeocode \in BOOLEAN }

StartGeocodeScan == \E in \in GeocodeScans : StartExtract(1, in)

NextGeocode == StartGeocodeScan \/ Settle1 \/ Return1

SpecGeocode == InitProcess /\ [][NextGeocode]_vars

\* the scored lines of the call c, in line order
ScoredLinesOf(c) ==
  ScoreAddressLines(FlattenLines(c.input.blocks, c.input.allText), 1, c.li0, <<>>).cands

\* how many entries of the sequence q equal r
CountOf(q, r) == Cardinality({k \in DOMAIN q : q[k] = r})

\* cands are lines of scored, each line at most once, in descending score order,
\* and no line left out scores higher than a line taken
TopByScore(cands, scored) ==
  /\ Len(cands) = Min(Len(scored), 6)
  /\ \A j, k \in DOMAIN cands : j < k => cands[j].score >= cands[k].score
  /\ \A j \in DOMAIN cands : CountOf(cands, cands[j]) <= CountOf(scored, cands[j])
  /\ \A m \in DOMAIN scored :
       CountOf(cands, scored[m]) < CountOf(scored, scored[m]) =>
         \A j \in DOMAIN cands : scored[m].score <= cands[j].score

\* lookups started and lookups settled by the call c
LookupsStarted(c) ==
  IF c.pc = "geocode" THEN c.i ELSE IF c.pc \in {"done", "raised"} THEN Len(c.answers) ELSE 0
LookupsSettled(c) == IF c.pc = "idle" THEN 0 ELSE Len(c.answers)

GeocodeCallsInOrder(c) ==
  /\ LookupsStarted(c) <= 6
  /\ LookupsStarted(c) - LookupsSettled(c) \in {0, 1}
  /\ c.pc = "geocode" =>
       /\ c.i \in DOMAIN c.addressCandidates
       /\ TopByScore(c.addressCandidates, ScoredLinesOf(c))
  /\ (c.pc # "idle" /\ (~c.input.tryGeocode \/ c.input.blocks = <<>>)) =>
       LookupsStarted(c) = 0

\* a step of a call that is awaiting a lookup settles that lookup and, if the call
\* goes on awaiting, starts the lookup of the next candidate
NextLookupAfterSettle ==
  calls[1].pc = "geocode" =>
    /\ LookupsSettled(calls'[1]) = LookupsSettled(calls[1]) + 1
    /\ calls'[1].pc = "geocode" =>
         /\ calls'[1].i = calls[1].i + 1
         /\ calls'[1].addressCandidates = calls[1].addressCandidates

\* C11: within one call geocode is invoked at most 6 times, once per address
\* candidate, in descending score order, each lookup only after the one before has
\* settled; never when tryGeocode is false or there are no lines.
C11_GeocodeSequentialTopSix ==
  [][NextLookupAfterSettle /\ GeocodeCallsInOrder(calls'[1])]_vars

\* a call over more lines than candidates are kept has settled six lookups
C11_Witness ==
  /\ calls[1].pc = "done"
  /\ Len(calls[1].input.blocks) > 6
  /\ Len(calls[1].answers) = 6

\* the address candidates of the call c, as the call ranked them
CandidatesOf(c) == SortAddressCandidates(ScoredLinesOf(c))

GeoMatchesAddress(c, cands) ==
  /\ (c.result.geo # NoGeo) <=> (\E k \in DOMAIN c.answers : c.answers[k] = "found")
  /\ c.result.geo # NoGeo =>
       /\ c.result.address \notin {JsNull, JsUndef}
       /\ c.result.geo = GeoOf(c.result.address.v)
       /\ \E k \in DOMAIN c.answers :
            c.answers[k] = "found" /\ cands[k].text = c.result.address.v
  /\ ~c.input.tryGeocode => c.result.geo = NoGeo

\* C12: the result has a geo exactly when a candidate geocoded, and then it is the
\* first coordinate pair of the lookup of the very text returned as address; no
\* geo when geocoding is disabled or every lookup fails.
C12_GeoIffGeocoded ==
  calls[1].pc = "done" => GeoMatchesAddress(calls[1], CandidatesOf(calls[1]))

\* a call whose first lookup failed and a later one found a place
C12_Witness ==
  /\ calls[1].pc = "done"
  /\ Len(calls[1].answers) >= 3
  /\ calls[1].answers[1] = "throw"
  /\ calls[1].answers[2] = "found"
  /\ calls[1].answers[3] = "found"
  /\ calls[1].result.geo # NoGeo

----------------------------------------------------------------------------
\* parseCouponBasics (lib/ocr.ts) and the title the scan screen shows

\* raw.replace(/[ \t]+/g, " "): every run of blanks and tabs becomes one blank
RECURSIVE BlankRunsToSpace(_)
BlankRunsToSpace(s) ==
  IF s = <<>> THEN <<>>
  ELSE IF Head(s) \in {" ", "\t"}
  THEN IF Len(s) > 1 /\ s[2] \in {" ", "\t"} THEN BlankRunsToSpace(Tail(s))
       ELSE <<" ">> \o BlankRunsToSpace(Tail(s))
  ELSE <<Head(s)>> \o BlankRunsToSpace(Tail(s))

\* buy\s*1\s*get\s*1 at i (its "buy" already found): the end (exclusive), 0 if none
BogoBuyEnd(s, i) ==
  With(i + 3 + SpaceRun(s, i + 3), LAMBDA a :
    IF ~CharAt(s, a, "1") THEN 0
    ELSE With(a + 1 + SpaceRun(s, a + 1), LAMBDA g :
      IF ~LitAtI(s, g, <<"g","e","t">>) THEN 0
      ELSE With(g + 3 + SpaceRun(s, g + 3), LAMBDA b :
        IF CharAt(s, b, "1") THEN b + 1 ELSE 0)))

\* /\b(bogo|buy\s*1\s*get\s*1)\b/i at i
BogoAt(s, i) ==
  /\ WordBoundary(s, i)
  /\ \/ LitAtI(s, i, <<"b","o","g","o">>) /\ WordBoundary(s, i + 4)
     \/ /\ LitAtI(s, i, <<"b","u","y">>)
        /\ BogoBuyEnd(s, i) # 0
        /\ WordBoundary(s, BogoBuyEnd(s, i))

BogoTest(s) == \E i \in DOMAIN s : BogoAt(s, i)

\* discount_kind ("undefined" when it is not set) and discount_value of the
\* CouponBasics; the value is a percentage, or an amount in cents. pickBestPercent
\* and pickBestAmount of lib/ocr.ts are the code of those of the text-only extractor.
DiscountOf(percent, amount, bogo) ==
  IF percent # JsNull THEN [discount_kind |-> "percent", discount_value |-> percent]
  ELSE IF amount # JsNull THEN [discount_kind |-> "amount", discount_value |-> amount]
  ELSE IF bogo THEN [discount_kind |-> "bogo", discount_value |-> JsUndef]
  ELSE [discount_kind |-> "undefined", discount_value |-> JsUndef]

\* the character U+00A0 (no-break space) of a text
Nbsp == "nbsp"

\* s.replace(/\u00A0/g, " ")
NbspToSpace(s) == [i \in 1..Len(s) |-> IF s[i] = Nbsp THEN " " ELSE s[i]]

\* raw.replace(/[ \t]+/g, " ").replace(/\u00A0/g, " ").trim()
OcrNormalize(raw) == Trim(NbspToSpace(BlankRunsToSpace(raw)))

\* s.split(/\r?\n/) (the texts of the model hold no carriage return)
RECURSIVE SplitAtNewline(_, _)
SplitAtNewline(s, cur) ==
  IF s = <<>> THEN <<cur>>
  ELSE IF s[1] = "\n" THEN <<cur>> \o SplitAtNewline(Tail(s), <<>>)
  ELSE SplitAtNewline(Tail(s), Append(cur, s[1]))

\* text.split(/\r?\n/).map(l => l.trim()).filter(Boolean)
OcrLines(raw) ==
  With(SplitAtNewline(OcrNormalize(raw), <<>>), LAMBDA parts :
    NonEmpty([k \in 1..Len(parts) |-> Trim(parts[k])]))

\* tidy of lib/coupon-parse.ts
tidy(s) == Trim(BlankRunsToSpace(NbspToSpace(s)))

\* raw.split(/\r?\n/).map(tidy).filter(Boolean)
TidyLines(raw) ==
  With(SplitAtNewline(raw, <<>>), LAMBDA parts :
    NonEmpty([k \in 1..Len(parts) |-> tidy(parts[k])]))

parseCouponBasics(raw) ==
  With(OcrNormalize(raw), LAMBDA t :
    DiscountOf(pickBestPercent(t), pickBestAmount(t), BogoTest(t)))

\* `${basic.discount_value}` in a template
ValueInTemplate(kind, value) ==
  IF value = JsUndef THEN <<"u","n","d","e","f","i","n","e","d">>
  ELSE IF kind = "percent" THEN NumToStr(value.v)
  ELSE CentsToStr(value.v)

\* nextTitle of takeAndOcr, given basic and parsed.title
nextTitle(basic, title) ==
  IF basic.discount_kind # "undefined"
  THEN IF basic.discount_kind = "percent"
       THEN ValueInTemplate(basic.discount_kind, basic.discount_value) \o <<"%"," ","o","f","f">>
       ELSE <<"$">> \o ValueInTemplate(basic.discount_kind, basic.discount_value) \o <<" ","o","f","f">>
  ELSE IF title = JsNull THEN <<>> ELSE title.v

\* what takeAndOcr computes for the title from the recognized text
TitlesOf(t) ==
  With(parseCouponBasics(t), LAMBDA basic :
  With(deriveTitle(t), LAMBDA title :
    [basic |-> basic, title |-> title, nextTitle |-> nextTitle(basic, title)]))

\* SpecTitle: takeAndOcr's title computation applied to one recognized text

NoTextDetected == [noText |-> TRUE]

\* if (!text.trim()) { Alert.alert('No text detected', ...); return; }
CallTitles ==
  /\ ret = JsUndef
  /\ ret' = IF Trim(arg) = <<>> THEN NoTextDetected ELSE TitlesOf(arg)
  /\ UNCHANGED <<text, parsed, lastIndex, calls, arg, storage, os, feed, tasks>>

\* coupon texts: a percentage part, a money part and a BOGO part, in either order
TitlePercentParts == {<<>>, <<"5","0","%">>, <<"S","a","v","e"," ","1","5","%"," ","o","r"," ","4","0","%">>, <<"1","%">>, <<"1","1","0","0","%">>}
TitleAmountParts ==
  {<<>>, <<"$","5">>, <<"$","5",".","0","0"," ","o","f","f">>, <<"$","5",".","5","0">>, <<"$","0">>, <<"$","0",".","0","0">>, <<"U","S","D"," ","1","0",".","2","5">>, <<"$","3"," ","a","n","d"," ","$","1","2">>, <<"u","s","d","7"," ","s","a","v","e">>}
TitleBogoParts == {<<>>, <<"B","O","G","O">>, <<"B","u","y"," ","1"," ","G","e","t"," ","1">>, <<"b","u","y","1"," "," ","g","e","t","1"," ","f","r","e","e">>}
TitleTexts ==
  {Join(NonEmpty(<<p, a, b>>), <<" ">>) :
     p \in TitlePercentParts, a \in TitleAmountParts, b \in TitleBogoParts}
  \cup {Join(NonEmpty(<<b, a, p>>), <<"\n">>) :
     p \in TitlePercentParts, a \in TitleAmountParts, b \in TitleBogoParts}

InitTitle ==
  /\ text = <<>>
  /\ parsed = JsUndef
  /\ lastIndex = 0
  /\ calls = NoCalls
  /\ arg \in TitleTexts
  /\ ret = JsUndef
  /\ NoDevice

NextTitle == CallTitles

SpecTitle == InitTitle /\ [][NextTitle]_vars

\* the money amounts written in s: '$' or 'USD', blanks, digits and optionally a
\* point and two digits; [at, str (the number as written), cents]
WrittenAmountFrom(s, q) ==
  With(DigitRun(s, q), LAMBDA n :
    IF n = 0 THEN <<>>
    ELSE IF CharAt(s, q + n, ".") /\ DigitRun(s, q + n + 1) >= 2
    THEN SubSeq(s, q, q + n + 2)
    ELSE SubSeq(s, q, q + n - 1))

WrittenAmountAt(s, i) ==
  IF CharAt(s, i, "$") THEN WrittenAmountFrom(s, i + 1 + SpaceRun(s, i + 1))
  ELSE IF LitAtI(s, i, <<"U","S","D">>) THEN WrittenAmountFrom(s, i + 3 + SpaceRun(s, i + 3))
  ELSE <<>>

WrittenAmounts(s) ==
  {[str |-> WrittenAmountAt(s, i), cents |-> ParseCents(WrittenAmountAt(s, i))] :
     i \in {k \in DOMAIN s : WrittenAmountAt(s, k) # <<>>}}

PositiveAmounts(s) == {a \in WrittenAmounts(s) : a.cents > 0}
ValidPercents(s) == {v \in WrittenPercents(s) : v >= 5 /\ v <= 100}

TitlesComputed == ret # JsUndef /\ ret # NoTextDetected

IsDollarTitle(t) == t # JsNull /\ t.v # <<>> /\ t.v[1] = "$"
IsPercentTitle(t) == t # JsNull /\ Includes(t.v, <<"%">>)

\* C13: one discount kind by priority: a valid percentage gives "{n}% off" whatever
\* else appears; else a valid money amount gives the dollar title; the title never
\* combines two kinds and is null when neither is found.
C13_OneKindByPriority ==
  TitlesComputed =>
    /\ ~(IsDollarTitle(ret.title) /\ IsPercentTitle(ret.title))
    /\ IF ValidPercents(arg) # {}
       THEN /\ ret.title = JsStr(NumToStr(SetMax(ValidPercents(arg))) \o <<"%"," ","o","f","f">>)
            /\ ret.basic.discount_kind = "percent"
       ELSE IF PositiveAmounts(arg) # {}
       THEN /\ IsDollarTitle(ret.title) /\ ~IsPercentTitle(ret.title)
            /\ ret.basic.discount_kind = "amount"
       ELSE /\ ret.title = JsNull
            /\ ret.basic.discount_kind \in {"bogo", "undefined"}

\* C14: a text with no valid percentage and no valid money amount but with "bogo"
\* or "buy 1 get 1" gets a title marked as BOGO: the title shown is not a percent
\* title, not a dollar title, and holds no undefined discount value.
C14_BogoTitleMarked ==
  (TitlesComputed /\ ValidPercents(arg) = {} /\ PositiveAmounts(arg) = {} /\ BogoTest(arg)) =>
    /\ ret.nextTitle # <<>>
    /\ ret.nextTitle[1] # "$"
    /\ ~Includes(ret.nextTitle, <<"%">>)
    /\ ~Includes(ret.nextTitle, <<"u","n","d","e","f","i","n","e","d">>)

\* C15: the money amount used for the title is the greatest of the '$' / 'USD'
\* amounts of the text that are strictly positive; zero amounts are rejected, and
\* without a positive amount there is no money title.
C15_AmountIsMaxPositive ==
  TitlesComputed =>
    /\ PositiveAmounts(arg) = {} =>
         /\ ~IsDollarTitle(ret.title)
         /\ ret.basic.discount_kind # "amount"
    /\ ret.basic.discount_kind = "amount" =>
         /\ ret.basic.discount_value.v = SetMax({a.cents : a \in PositiveAmounts(arg)})
         /\ ret.title = JsStr(<<"$">> \o CentsToStr(ret.basic.discount_value.v) \o <<" ","o","f","f">>)
    /\ (PositiveAmounts(arg) # {} /\ ~Includes(arg, <<"%">>)) =>
         ret.basic.discount_kind = "amount"

\* a text with a zero amount and two positive amounts has given the title of the
\* greater
C15_Witness ==
  /\ TitlesComputed
  /\ Cardinality(PositiveAmounts(arg)) >= 2
  /\ ret.basic.discount_kind = "amount"
  /\ ret.title = JsStr(<<"$","1","2"," ","o","f","f">>)

\* C16: the money title reproduces the chosen amount as it is written in the text,
\* a two-decimal amount keeping both decimals ("$5.00 off" gives "5.00").
C16_AmountAsWritten ==
  (TitlesComputed /\ ret.basic.discount_kind = "amount") =>
    \E a \in PositiveAmounts(arg) :
      /\ a.cents = ret.basic.discount_value.v
      /\ ret.title = JsStr(<<"$">> \o a.str \o <<" ","o","f","f">>)
      /\ ret.nextTitle = <<"$">> \o a.str \o <<" ","o","f","f">>

\* the year of the numeric date a/b/y written in t, a two-digit year being 20yy
WrittenYear(t) ==
  With(ParseInt(SplitSlashDash(t, 1, <<>>)[3]), LAMBDA y : IF y < 100 THEN y + 2000 ELSE y)

\* day d of month m of year y exists in the calendar
RealDate(y, m, d) ==
  /\ m \in 1..12
  /\ d >= 1
  /\ d <= (IF m = 2 THEN (IF (y % 4 = 0 /\ y % 100 # 0) \/ y % 400 = 0 THEN 29 ELSE 28)
           ELSE IF m \in {4, 6, 9, 11} THEN 30 ELSE 31)

ImpossibleDate(y, w) == ~RealDate(y, w.a, w.b) /\ ~RealDate(y, w.b, w.a)

\* C17: a matched date that is no calendar date, read as month/day or as
\* day/month, yields a null expiry, never a rolled-over date.
C17_ImpossibleDateIsNull ==
  (ret # JsUndef /\ arg \in NumericDateTexts
     /\ ImpossibleDate(WrittenYear(arg), WrittenDateFields(arg))) =>
    ret = JsNull

\* the words that introduce an expiry date
ExpiryLabelWords ==
  {<<"e","x","p","i","r","e","s">>, <<"e","x","p">>, <<"v","a","l","i","d"," ","t","h","r","u">>, <<"v","a","l","i","d"," ","t","h","r","o","u","g","h">>, <<"v","a","l","i","d"," ","u","n","t","i","l">>}

\* the numeric date a/b/y written at position p of s: <<[a, b, y]>>, or <<>>
WrittenDateAt(s, p) ==
  With(p + DigitRun(s, p), LAMBDA e1 :
  With(e1 + 1 + DigitRun(s, e1 + 1), LAMBDA e2 :
  With(e2 + 1 + DigitRun(s, e2 + 1), LAMBDA e3 :
    IF /\ e1 > p /\ e1 <= Len(s) /\ IsDateSep(s[e1])
       /\ e2 > e1 + 1 /\ e2 <= Len(s) /\ IsDateSep(s[e2])
       /\ e3 > e2 + 1
    THEN <<[a |-> ParseInt(SubSeq(s, p, e1 - 1)),
            b |-> ParseInt(SubSeq(s, e1 + 1, e2 - 1)),
            y |-> With(ParseInt(SubSeq(s, e2 + 1, e3 - 1)), LAMBDA y :
                    IF y < 100 THEN y + 2000 ELSE y)]>>
    ELSE <<>>)))

\* the dates of s that a label introduces
LabelledDateAt(s, i, w) ==
  IF LitAtI(s, i, w) /\ ColonSpaceRun(s, i + Len(w)) >= 1
  THEN WrittenDateAt(s, i + Len(w) + ColonSpaceRun(s, i + Len(w)))
  ELSE <<>>

LabelledDatesOf(s) ==
  {LabelledDateAt(s, iw[1], iw[2])[1] :
     iw \in {jw \in (DOMAIN s) \X ExpiryLabelWords :
               LabelledDateAt(s, jw[1], jw[2]) # <<>>}}

\* C18: when a label introduces a numeric date (a real month/day/year), that
\* date is the expiry, also when the text holds another date, before or after it.
C18_LabelledDateFirst ==
  ret # JsUndef =>
    \A d \in LabelledDatesOf(arg) :
      RealDate(d.y, d.a, d.b) =>
        ret = JsStr(toISODateOnly([year |-> d.y, month |-> d.a, date |-> d.b]))

\* the month-name date written at i of s (month name, day, optional comma, year;
\* a two-digit year is 20yy): <<[y, m, d]>>, or <<>> if there is none
WrittenLongDateAt(s, i) ==
  With(i + 3 + LetterRun(s, i + 3), LAMBDA p :
  With(p + SpaceRun(s, p), LAMBDA k :
  With(k + DigitRun(s, k), LAMBDA q :
  With((IF CharAt(s, q, ",") THEN q + 1 ELSE q), LAMBDA q1 :
  With(q1 + SpaceRun(s, q1), LAMBDA ys :
    IF OcrMonthAt(s, i) = 0 \/ q = k \/ DigitRun(s, ys) = 0 THEN <<>>
    ELSE <<[m |-> OcrMonthAt(s, i),
            d |-> ParseInt(SubSeq(s, k, q - 1)),
            y |-> With(ParseInt(SubSeq(s, ys, ys + DigitRun(s, ys) - 1)), LAMBDA y :
                    IF y < 100 THEN y + 2000 ELSE y)]>>)))))

WrittenLongDates(s) ==
  {WrittenLongDateAt(s, i)[1] : i \in {j \in DOMAIN s : WrittenLongDateAt(s, j) # <<>>}}

\* C19: a text whose only date is a month-name date resolves to that day of that
\* month of the year written, with or without a comma before the year.
C19_MonthNameYearKept ==
  (ret # JsUndef /\ arg \in LongDateTexts) =>
    \A w \in WrittenLongDates(arg) :
      ret = JsStr(toISODateOnly([year |-> w.y, month |-> w.m, date |-> w.d]))

-----------------------------------------------------------------------------
\* SpecMode: detectMode applied to one text of up to MaxModeWords words

MaxModeWords == 3
ModeWords ==
  {<<"d","i","n","e","-","i","n">>, <<"D","i","n","e"," ","I","n">>, <<"d","i","n","e","i","n">>, <<"p","i","c","k","u","p">>, <<"P","I","C","K","-","U","P">>, <<"p","i","c","k"," ","u","p">>,
   <<"o","r","d","e","r">>, <<"d","i","n","n","e","r">>, <<"p","i","c","k","u","p","s">>}

RECURSIVE WordTexts(_)
WordTexts(n) ==
  IF n = 0 THEN {<<>>}
  ELSE With(WordTexts(n - 1), LAMBDA shorter :
         shorter \cup ModeWords
                 \cup {t \o <<" ">> \o w : t \in shorter \ {<<>>}, w \in ModeWords})
ModeTexts == WordTexts(MaxModeWords)

InitMode ==
  /\ text = <<>>
  /\ parsed = JsUndef
  /\ lastIndex = 0
  /\ calls = NoCalls
  /\ arg \in ModeTexts
  /\ ret = JsUndef
  /\ NoDevice

CallDetectMode ==
  /\ ret = JsUndef
  /\ ret' = [t |-> "mode", v |-> detectMode(arg)]
  /\ UNCHANGED <<text, parsed, lastIndex, calls, arg, storage, os, feed, tasks>>

NextMode == CallDetectMode

SpecMode == InitMode /\ [][NextMode]_vars

\* a whole word of s is one of the keywords ws
HasKeyword(s, ws) ==
  \E i \in DOMAIN s : \E w \in ws :
    LitAtI(s, i, w) /\ WordBoundary(s, i) /\ WordBoundary(s, i + Len(w))

DineKeywords == {<<"d","i","n","e","-","i","n">>, <<"d","i","n","e"," ","i","n">>, <<"d","i","n","e","i","n">>}
PickupKeywords == {<<"p","i","c","k","u","p">>, <<"p","i","c","k","-","u","p">>, <<"p","i","c","k"," ","u","p">>}

\* C20: the mode is 'dine-in' when the text has a dine-in keyword (with or
\* without a pickup keyword, in either order), 'pickup' when it has only a
\* pickup keyword, and '' when it has neither.
C20_DineInBeatsPickup ==
  ret # JsUndef =>
    ret.v = (IF HasKeyword(arg, DineKeywords) THEN "dine-in"
             ELSE IF HasKeyword(arg, PickupKeywords) THEN "pickup"
             ELSE "")

-----------------------------------------------------------------------------
\* SpecTerms: extractTerms applied to one text of up to MaxTermsWords filler words

MaxTermsWords == 150

\* n copies of w
Rep(w, n) == [i \in 1..(n * Len(w)) |-> w[((i - 1) % Len(w)) + 1]]

TermsHeads == {<<>>, <<" ">>, <<"T","e","r","m","s",":"," ">>, <<"n","o","t"," "," ","v","a","l","i","d"," ","o","n"," ">>, <<"i","n","v","a","l","i","d"," ">>}
TermsFillers == {<<"a","b"," ">>, <<"x","\t","\n">>}
TermsCounts == {0, 1, 99, 100, 133, 134, MaxTermsWords}
TermsTails == {<<>>, <<"o","n","l","y">>, <<" ","V","a","l","i","d"," ","t","h","r","u"," ">>, <<"e","n","d"," ">>}
TermsTexts ==
  {h \o Rep(f, n) \o t :
     h \in TermsHeads, f \in TermsFillers, n \in TermsCounts, t \in TermsTails}

InitTerms ==
  /\ text = <<>>
  /\ parsed = JsUndef
  /\ lastIndex = 0
  /\ calls = NoCalls
  /\ arg \in TermsTexts
  /\ ret = JsUndef
  /\ NoDevice

CallExtractTerms ==
  /\ ret = JsUndef
  /\ ret' = extractTerms(arg)
  /\ UNCHANGED <<text, parsed, lastIndex, calls, arg, storage, os, feed, tasks>>

NextTerms == CallExtractTerms

SpecTerms == InitTerms /\ [][NextTerms]_vars

\* the positions of the collapsed text t where a whole-word terms keyword begins
KeywordStarts(t) == {i \in DOMAIN t : KeywordAt(t, i, TermsKeywords)}

TermsOf(t, starts, terms) ==
  /\ Len(terms) <= 400
  /\ starts # {} =>
       With(CHOOSE i \in starts : \A j \in starts : i <= j, LAMBDA first :
         terms = SubSeq(t, first, Min(Len(t), first + 399)))
  /\ starts = {} => \E k \in 1..(Len(t) + 1) : terms = Slice(t, k)

\* C21: terms is at most 400 characters long; with a terms keyword in the
\* collapsed text it is the first 400 characters from the first keyword on,
\* without one it is a tail of the collapsed text.
C21_TermsSnippetOrTail ==
  ret # JsUndef =>
    /\ ret.t = "string"
    /\ With(Trim(CollapseSpaces(arg)), LAMBDA t : TermsOf(t, KeywordStarts(t), ret.v))

C21_Witness ==
  /\ ret # JsUndef
  /\ Len(ret.v) = 400
  /\ Len(Trim(CollapseSpaces(arg))) > 400
  /\ LitAtI(ret.v, 1, <<"T","e","r","m","s">>)

\* the pool of store candidates of a call on input in
PoolOf(in) == StoreCandidatePool(FlattenLines(in.blocks, in.allText), in.brands)

\* k is the first candidate of the pool with the maximum score
FirstBest(pool, k) ==
  /\ \A j \in DOMAIN pool : ~ScLess(pool[k].score, pool[j].score)
  /\ \A j \in 1..(k - 1) : ScLess(pool[j].score, pool[k].score)

StoreIsFirstBest(pool, store) ==
  /\ store = JsNull <=> pool = <<>>
  /\ pool # <<>> => \E k \in DOMAIN pool : FirstBest(pool, k) /\ store = JsStr(pool[k].text)

\* C22: the store returned is the text of the first candidate with the maximum
\* score of the pool (lines in order, stitched title, URL brand), and null exactly
\* when the pool is empty.
C22_StoreIsFirstBest ==
  calls[1].pc = "done" => StoreIsFirstBest(PoolOf(calls[1].input), calls[1].result.store)

\* a returned store that shares the maximum score with a later candidate
C22_Witness ==
  /\ calls[1].pc = "done"
  /\ calls[1].result.store # JsNull
  /\ With(PoolOf(calls[1].input), LAMBDA pool :
       \E k, j \in DOMAIN pool :
         k < j /\ FirstBest(pool, k) /\ ScEq(pool[k].score, pool[j].score))

\* position i of s is outside s or holds a blank, a point or a comma
TokenEdgeAt(s, i) == i < 1 \/ i > Len(s) \/ IsSpace(s[i]) \/ s[i] \in {".", ","}

\* a street suffix or address hint stands in s as a word of its own
HasStreetWord(s) ==
  \E k \in DOMAIN ADDRESS_HINTS : \E i \in DOMAIN s :
    /\ LitAtI(s, i, ADDRESS_HINTS[k])
    /\ TokenEdgeAt(s, i - 1)
    /\ TokenEdgeAt(s, i + Len(ADDRESS_HINTS[k]))

\* the address score of the line s at index idx as the sum of its stated terms,
\* in thousandths
StatedAddressScore(s, idx) ==
    (IF HasStreetWord(s) THEN 2500 ELSE 0)
  + (IF ZipTest(s) THEN 1500 ELSE 0)
  + (IF \E i \in DOMAIN s : PhoneEndAt(s, i) # 0 THEN 600 ELSE 0)
  + (IF \E i \in DOMAIN s : IsDigit(s[i]) THEN 400 ELSE 0)
  + (IF idx < 16 THEN 800 - 50 * idx ELSE 0)
  - (IF Len(s) < 8 \/ Len(s) > 90 THEN 500 ELSE 0)

\* C24: a line that is not offer language scores the sum of the stated terms,
\* which depends on its text and index alone: no street bonus for a ZIP without
\* a street token.
C24_AddressScoreTerms ==
  calls[1].pc # "idle" =>
    With(ScoredLinesOf(calls[1]), LAMBDA scored :
      \A k \in DOMAIN scored :
        ~AddressBadTest(scored[k].text) =>
          scored[k].score = StatedAddressScore(scored[k].text, k - 1))

\* the lines of the call c with the address score stated for each, in line order
StatedScoredLines(lines) ==
  [k \in DOMAIN lines |->
     [text |-> lines[k].text,
      score |-> IF AddressBadTest(lines[k].text) THEN -999000
                ELSE StatedAddressScore(lines[k].text, k - 1)]]

\* heuristic score plus the geocode bonus, in thousandths
StatedCombined(l) ==
  l.score + 2000 + (IF ZipTest(l.text) THEN 300 ELSE 0)
                 + (IF HasStreetWord(l.text) THEN 200 ELSE 0)

\* line a ranks before line b
RanksBefore(S, a, b) == S[a].score > S[b].score \/ (S[a].score = S[b].score /\ a < b)

\* the lines whose lookup found a place: the call asked for its candidates in order
FoundLines(S, cands, answers) ==
  {k \in DOMAIN S : \E j \in DOMAIN answers : answers[j] = "found" /\ cands[j].text = S[k].text}

StatedAddress(S, found) ==
  IF S = <<>> THEN JsNull
  ELSE IF found = {}
  THEN JsStr(S[CHOOSE k \in DOMAIN S : \A j \in DOMAIN S \ {k} : RanksBefore(S, k, j)].text)
  ELSE JsStr(S[CHOOSE k \in found : \A j \in found \ {k} :
                 \/ StatedCombined(S[k]) > StatedCombined(S[j])
                 \/ StatedCombined(S[k]) = StatedCombined(S[j]) /\ RanksBefore(S, k, j)].text)

\* C23: the address returned is the geocoded candidate with the highest combined
\* score (heuristic score + 2.0 + 0.3 for a ZIP + 0.2 for a street token), the
\* higher-ranked one on ties, and the highest-scored line when none geocoded or
\* geocoding is disabled (calls on at most six lines, all of them candidates).
C23_BestGeocodedAddress ==
  (calls[1].pc = "done" /\ Len(calls[1].input.blocks) <= 6) =>
    With(StatedScoredLines(FlattenLines(calls[1].input.blocks, calls[1].input.allText)),
         LAMBDA S :
           calls[1].result.address =
             StatedAddress(S, FoundLines(S, CandidatesOf(calls[1]), calls[1].answers)))

\* the same selection over the scores the call computed itself
ComputedAddress(cands, answers) ==
  With({k \in DOMAIN answers : answers[k] = "found"}, LAMBDA found :
    IF cands = <<>> THEN JsNull
    ELSE IF found = {} THEN JsStr(cands[1].text)
    ELSE JsStr(cands[CHOOSE k \in found : \A j \in found \ {k} :
                 \/ cands[k].score + geoScore(cands[k].text)
                      > cands[j].score + geoScore(cands[j].text)
                 \/ /\ cands[k].score + geoScore(cands[k].text)
                         = cands[j].score + geoScore(cands[j].text)
                    /\ k < j].text))

SelectionOverComputedScores ==
  calls[1].pc = "done" =>
    calls[1].result.address = ComputedAddress(CandidatesOf(calls[1]), calls[1].answers)

-----------------------------------------------------------------------------
\* SpecStitch: stitchTopTitle applied to up to MaxStitchLines lines

MaxStitchLines == 3

StitchVocabulary ==
  { [text |-> <<"W","E","N","D","Y","S">>, bbox |-> [x |-> 150, y |-> 100, w |-> 100, h |-> 60]],
    [text |-> <<"1","2"," ","M","a","i","n"," ","S","t">>, bbox |-> [x |-> 20, y |-> 300, w |-> 200, h |-> 30]],
    [text |-> <<"o","p","e","n"," ","l","a","t","e">>, bbox |-> [x |-> 150, y |-> 200, w |-> 100, h |-> 30]],
    [text |-> <<"V","a","l","i","d"," ","o","n","l","y">>, bbox |-> [x |-> 20, y |-> 50, w |-> 200, h |-> 20]],
    [text |-> <<"L","u","n","c","h">>, bbox |-> [x |-> 20, y |-> 400, w |-> 200, h |-> 20]] }

\* the lines with their boxes, and the same lines without boxes
StitchInputs ==
  UNION {{q, [k \in DOMAIN q |-> [text |-> q[k].text, bbox |-> NoBBox]]} :
           q \in DistinctSeqs(StitchVocabulary, MaxStitchLines)}

InitStitch ==
  /\ text = <<>>
  /\ parsed = JsUndef
  /\ lastIndex = 0
  /\ calls = NoCalls
  /\ arg \in StitchInputs
  /\ ret = JsUndef
  /\ NoDevice

CallStitchTopTitle ==
  /\ ret = JsUndef
  /\ ret' = [t |-> "stitched", v |-> stitchTopTitle(arg)]
  /\ UNCHANGED <<text, parsed, lastIndex, calls, arg, storage, os, feed, tasks>>

NextStitch == CallStitchTopTitle

SpecStitch == InitStitch /\ [][NextStitch]_vars

\* the texts of the qualifying lines among the five topmost, top to bottom
QualifyingTopLines(lines) ==
  With(SortedByY(lines), LAMBDA sorted :
  With(SelectSeq(SubSeq(sorted, 1, Min(Len(sorted), 5)),
                 LAMBDA l : StitchQualifies(Trim(l.text))), LAMBDA q :
    [k \in DOMAIN q |-> Trim(q[k].text)]))

StitchedOf(q) ==
  IF Len(q) >= 2 THEN toTitleCase(Join(SubSeq(q, 1, Min(Len(q), 3)), <<" ">>)) ELSE <<>>

\* C25: the stitched title is the title-cased concatenation of the two to three
\* topmost qualifying lines whenever at least two of the topmost lines qualify,
\* and there is none with fewer.
C25_StitchedTopTitle ==
  ret # JsUndef => ret.v = StitchedOf(QualifyingTopLines(arg))

-----------------------------------------------------------------------------
\* SpecLines: the line normalisation of parseCouponBasics and of
\* lib/coupon-parse.ts applied to one raw text of up to MaxRawLen characters

MaxRawLen == 5
RawAlphabet == {"a", "b", " ", "\t", Nbsp, "\n"}
RawTexts == SeqsUpTo(RawAlphabet, MaxRawLen)

InitLines ==
  /\ text = <<>>
  /\ parsed = JsUndef
  /\ lastIndex = 0
  /\ calls = NoCalls
  /\ arg \in RawTexts
  /\ ret = JsUndef
  /\ NoDevice

CallNormalizeLines ==
  /\ ret = JsUndef
  /\ ret' = [t |-> "lines", ocr |-> OcrLines(arg), tidy |-> TidyLines(arg)]
  /\ UNCHANGED <<text, parsed, lastIndex, calls, arg, storage, os, feed, tasks>>

NextLines == CallNormalizeLines

SpecLines == InitLines /\ [][NextLines]_vars

IsBlankChar(c) == c \in {" ", "\t", Nbsp, "\n"}
IsSpaceOrTab(c) == c \in {" ", "\t"}

\* the characters of s that are not white space, in order
InkOf(s) == SelectSeq(s, LAMBDA c : ~IsBlankChar(c))

NormalLine(l) ==
  /\ l # <<>>
  /\ ~IsBlankChar(l[1])
  /\ ~IsBlankChar(l[Len(l)])
  /\ \A i \in DOMAIN l : l[i] # Nbsp
  /\ \A i \in 1..(Len(l) - 1) : ~(IsSpaceOrTab(l[i]) /\ IsSpaceOrTab(l[i + 1]))

\* lines are the lines of raw that hold more than white space, in their order
SameLinesInOrder(raw, lines) ==
  With(SplitAtNewline(raw, <<>>), LAMBDA parts :
    [k \in DOMAIN lines |-> InkOf(lines[k])]
      = NonEmpty([k \in 1..Len(parts) |-> InkOf(parts[k])]))

NormalLines(raw, lines) ==
  /\ \A k \in DOMAIN lines : NormalLine(lines[k])
  /\ SameLinesInOrder(raw, lines)
  /\ raw = <<>> => lines = <<>>

\* C26: the normalized lines are the input's lines in order, each non-empty,
\* without white space at its ends, without a no-break space and without two
\* consecutive blanks or tabs; the empty text gives no line.
C26_LinesNormalized ==
  ret # JsUndef => NormalLines(arg, ret.ocr) /\ NormalLines(arg, ret.tidy)

\* the same for the lines of lib/coupon-parse.ts alone
TidyLinesNormalized == ret # JsUndef => NormalLines(arg, ret.tidy)

-----------------------------------------------------------------------------
\* Nearby notifications (lib/geo.ts): the throttle state under STATE_KEY, the
\* geofence task and the immediate notification of registerFromCoupons.
\* Handlers are async functions: each runs from one await to the next without
\* interruption, and other handlers run in between. A getItem is taken to read at
\* the moment its await resumes, a setItem to write at the moment its own await
\* resumes.

DAILY_CAP == 50
CooldownMs == 36000

ThrottleKeys == {"k1", "k2"}

\* s ? JSON.parse(s) : {} of an absent item: no day, no count, no key
NoThrottleState == [day |-> 0, daily |-> 0, lastByKey |-> [k \in ThrottleKeys |-> 0]]

\* if (state.day !== today) state = { day: today, daily: 0, lastByKey: {} }
StateOfToday(state, today) ==
  IF state.day # today THEN [NoThrottleState EXCEPT !.day = today] ELSE state

\* the checks of allowNotify on the state read, at time now
ThrottleAllows(state, key, now) ==
  /\ state.daily < DAILY_CAP
  /\ ~(state.lastByKey[key] # 0 /\ now - state.lastByKey[key] < CooldownMs)

\* the state markNotified writes
MarkedState(state, key, now) ==
  [state EXCEPT !.daily = state.daily + 1, !.lastByKey[key] = now]

MaxHandlers == 2
MaxTicks == 2
Handlers == 1..MaxHandlers

IdleTask == [pc |-> "idle"]

\* the handler is at the call of allowNotify for the first of keys
AtAllow(kind, keys) == [pc |-> "allow", kind |-> kind, keys |-> keys]

\* a geofence ENTER event for a region whose throttle key is key wakes the task
GeofenceEnter(h) ==
  /\ tasks[h].pc = "idle"
  /\ \E key \in ThrottleKeys : tasks' = [tasks EXCEPT ![h] = AtAllow("task", <<key>>)]
  /\ UNCHANGED <<text, parsed, lastIndex, calls, arg, ret, storage, os, feed>>

\* registerFromCoupons reaches its loop over the regions that hold the anchor
RegisterImmediate(h) ==
  /\ tasks[h].pc = "idle"
  /\ \E keys \in {<<"k1">>, <<"k1", "k2">>, <<"k2", "k1">>} :
       tasks' = [tasks EXCEPT ![h] = AtAllow("register", keys)]
  /\ UNCHANGED <<text, parsed, lastIndex, calls, arg, ret, storage, os, feed>>

\* allowNotify: const now = Date.now(); await AsyncStorage.getItem(STATE_KEY)
AllowBegin(h) ==
  /\ tasks[h].pc = "allow"
  /\ tasks' = [tasks EXCEPT ![h] =
       [pc |-> "allowRead", kind |-> tasks[h].kind, keys |-> tasks[h].keys, now |-> os.now]]
  /\ UNCHANGED <<text, parsed, lastIndex, calls, arg, ret, storage, os, feed>>

\* the handler after allowNotify returned false: the task returns, the loop of
\* registerFromCoupons goes on with its next region
AfterDenied(t) ==
  IF t.kind = "register" /\ Len(t.keys) > 1 THEN AtAllow(t.kind, Tail(t.keys))
  ELSE [pc |-> "done"]

\* allowNotify resumes with the item: it returns true, or issues the setItem of
\* the state it read
AllowCheck(h) ==
  /\ tasks[h].pc = "allowRead"
  /\ tasks' = [tasks EXCEPT ![h] =
       IF ThrottleAllows(StateOfToday(storage.state, os.day), Head(tasks[h].keys), tasks[h].now)
       THEN [pc |-> "schedule", kind |-> tasks[h].kind, keys |-> tasks[h].keys]
       ELSE [pc |-> "denyWrite", kind |-> tasks[h].kind, keys |-> tasks[h].keys,
             val |-> StateOfToday(storage.state, os.day)]]
  /\ UNCHANGED <<text, parsed, lastIndex, calls, arg, ret, storage, os, feed>>

\* await AsyncStorage.setItem(STATE_KEY, JSON.stringify(state)); return false
DenyWrite(h) ==
  /\ tasks[h].pc = "denyWrite"
  /\ storage' = [storage EXCEPT !.state = tasks[h].val]
  /\ tasks' = [tasks EXCEPT ![h] = AfterDenied(tasks[h])]
  /\ UNCHANGED <<text, parsed, lastIndex, calls, arg, ret, os, feed>>

\* await logAndScheduleNotification(...): the notification is scheduled
ScheduleNearby(h) ==
  /\ tasks[h].pc = "schedule"
  /\ os' = [os EXCEPT !.sent =
       Append(os.sent, [key |-> Head(tasks[h].keys), at |-> os.now, day |-> os.day])]
  /\ tasks' = [tasks EXCEPT ![h] = [pc |-> "mark", key |-> Head(tasks[h].keys)]]
  /\ UNCHANGED <<text, parsed, lastIndex, calls, arg, ret, storage, feed>>

\* markNotified: const now = Date.now(); await AsyncStorage.getItem(STATE_KEY)
MarkBegin(h) ==
  /\ tasks[h].pc = "mark"
  /\ tasks' = [tasks EXCEPT ![h] = [pc |-> "markRead", key |-> tasks[h].key, now |-> os.now]]
  /\ UNCHANGED <<text, parsed, lastIndex, calls, arg, ret, storage, os, feed>>

\* markNotified resumes with the item and issues the setItem of the counted state
MarkCount(h) ==
  /\ tasks[h].pc = "markRead"
  /\ tasks' = [tasks EXCEPT ![h] =
       [pc |-> "markWrite",
        val |-> MarkedState(StateOfToday(storage.state, os.day), tasks[h].key, tasks[h].now)]]
  /\ UNCHANGED <<text, parsed, lastIndex, calls, arg, ret, storage, os, feed>>

\* await AsyncStorage.setItem(STATE_KEY, JSON.stringify(state))
MarkWrite(h) ==
  /\ tasks[h].pc = "markWrite"
  /\ storage' = [storage EXCEPT !.state = tasks[h].val]
  /\ tasks' = [tasks EXCEPT ![h] = [pc |-> "done"]]
  /\ UNCHANGED <<text, parsed, lastIndex, calls, arg, ret, os, feed>>

\* time passes: a millisecond, or a whole cooldown
TimePasses ==
  /\ os.ticks < MaxTicks
  /\ \E d \in {1, CooldownMs} : os' = [os EXCEPT !.now = os.now + d, !.ticks = os.ticks + 1]
  /\ UNCHANGED <<text, parsed, lastIndex, calls, arg, ret, storage, feed, tasks>>

\* midnight: the calendar day changes
Midnight ==
  /\ os.day = 1
  /\ os' = [os EXCEPT !.day = 2, !.now = os.now + 1]
  /\ UNCHANGED <<text, parsed, lastIndex, calls, arg, ret, storage, feed, tasks>>

\* the device on day 1 with sentToday nearby notifications sent and counted so
\* far, none of them for the keys of the model
InitThrottle ==
  /\ text = <<>>
  /\ parsed = JsUndef
  /\ lastIndex = 0
  /\ calls = NoCalls
  /\ arg = <<>>
  /\ ret = JsUndef
  /\ feed = Absent
  /\ tasks = [h \in Handlers |-> IdleTask]
  /\ \E sentToday \in {0, DAILY_CAP - 1, DAILY_CAP} :
       /\ storage = [state |-> IF sentToday = 0 THEN NoThrottleState
                               ELSE [NoThrottleState EXCEPT !.day = 1, !.daily = sentToday]]
       /\ os = [now |-> 1000, day |-> 1, ticks |-> 0, sent |-> <<>>, sentBefore |-> sentToday]

NextThrottle ==
  \/ \E h \in Handlers :
       \/ GeofenceEnter(h) \/ RegisterImmediate(h)
       \/ AllowBegin(h) \/ AllowCheck(h) \/ DenyWrite(h)
       \/ ScheduleNearby(h) \/ MarkBegin(h) \/ MarkCount(h) \/ MarkWrite(h)
  \/ TimePasses
  \/ Midnight

SpecThrottle == InitThrottle /\ [][NextThrottle]_vars

\* the nearby notifications sent on day d
SentOn(d) ==
  (IF d = 1 THEN os.sentBefore ELSE 0) + Cardinality({i \in DOMAIN os.sent : os.sent[i].day = d})

\* C27: at most DAILY_CAP nearby notifications are sent on a calendar day, and no
\* key is notified twice within the cooldown, however the handlers interleave.
C27_ThrottleHolds ==
  /\ \A d \in 1..2 : SentOn(d) <= DAILY_CAP
  /\ \A i, j \in DOMAIN os.sent :
       (i < j /\ os.sent[i].key = os.sent[j].key) => os.sent[j].at - os.sent[i].at >= CooldownMs


-----------------------------------------------------------------------------
\* registerFromCoupons (lib/geo.ts): the regions handed to the geofencing
\* service, the metadata under META_KEY and the immediate notification.

MAX_REGIONS == 18
MIN_RADIUS == 150
MAX_RADIUS == 800
DEFAULT_RADIUS == 250

MaxCoupons == 26

CouponId(i) == "k" \o ToString(i)

\* a radius taken as it is given
clampRadiusUnbounded(r) == r

\* function clampRadius(r)
clampRadius(r) == Max(MIN_RADIUS, Min(MAX_RADIUS, r))

\* haversine for two places on one meridian, latitudes counted in steps of 100 m
haversine(lat1, lon1, lat2, lon2) ==
  100 * (IF lat1 >= lat2 THEN lat1 - lat2 ELSE lat2 - lat1)

\* function daysUntil(iso), the expiry given as whole days from now
daysUntil(valid_to) == IF valid_to = JsNull THEN 9999 ELSE valid_to.v

\* the device's position fix
Anchor == [lat |-> 0, lng |-> 0]

\* what the geocoder answers for an address when it finds it
GeocodedPlace(address) ==
  [latitude |-> JsNum(CHOOSE i \in 1..(10 * (MaxCoupons + 1)) : ToString(i) = address.v),
   longitude |-> JsNum(0)]

\* c.store.default_radius_m ?? c.store.radius_m ?? DEFAULT_RADIUS
StoreRadius(store) ==
  IF store.default_radius_m # JsNull THEN store.default_radius_m.v
  ELSE IF store.radius_m # JsNull THEN store.radius_m.v
  ELSE DEFAULT_RADIUS

\* dist - expBoost * 500 with expBoost = Math.max(0, 1 - daysUntil / 14), in
\* fourteenths of a metre
ScoreOf(c) ==
  14 * haversine(Anchor.lat, Anchor.lng, c.store.lat.v, c.store.lng.v)
    - Max(0, 14 - daysUntil(c.valid_to)) * 500

\* .sort((a, b) => a.score - b.score), a stable sort
SortByScore(cs) ==
  [r \in 1..Len(cs) |->
     cs[CHOOSE k \in 1..Len(cs) :
          Cardinality({j \in 1..Len(cs) :
             \/ ScoreOf(cs[j]) < ScoreOf(cs[k])
             \/ ScoreOf(cs[j]) = ScoreOf(cs[k]) /\ j < k}) = r - 1]]

\* .slice(0, MAX_REGIONS)
Scored(withCoords) ==
  With(SortByScore(withCoords), LAMBDA sorted : SubSeq(sorted, 1, Min(Len(sorted), MAX_REGIONS)))

\* const regions = scored.map(...)
RegionsOf(scored) ==
  [k \in 1..Len(scored) |->
     [identifier |-> scored[k].id,
      latitude |-> scored[k].store.lat,
      longitude |-> scored[k].store.lng,
      radius |-> clampRadius(StoreRadius(scored[k].store))]]

\* scored.forEach(({ c }) => { meta[c.id] = {...} })
MetaOf(scored) ==
  [id \in {scored[k].id : k \in 1..Len(scored)} |-> [couponId |-> id]]

\* the position of the call after its loop over the coupons: the regions and the
\* metadata are built, stopGeofencingAsync is awaited
AtStop(withCoords) ==
  With(Scored(withCoords), LAMBDA scored :
    [pc |-> "stop", regions |-> RegionsOf(scored), meta |-> MetaOf(scored)])

\* if (lat != null && lng != null) withCoords.push(...)
PushWithCoords(withCoords, c, lat, lng) ==
  IF lat # JsNull /\ lng # JsNull
  THEN Append(withCoords, [c EXCEPT !.store.lat = lat, !.store.lng = lng])
  ELSE withCoords

NeedsGeocoding(c) ==
  (c.store.lat = JsNull \/ c.store.lng = JsNull) /\ c.store.address # JsNull

\* for (const c of coupons) from coupon i on, up to the next await
RECURSIVE RegisterLoop(_, _, _)
RegisterLoop(coupons, i, withCoords) ==
  IF i > Len(coupons) THEN AtStop(withCoords)
  ELSE IF NeedsGeocoding(coupons[i])
  THEN [pc |-> "geocode", coupons |-> coupons, i |-> i, withCoords |-> withCoords]
  ELSE RegisterLoop(coupons, i + 1,
         PushWithCoords(withCoords, coupons[i], coupons[i].store.lat, coupons[i].store.lng))

\* the identifiers of the regions that hold the anchor, in the order of regions
RECURSIVE InsideKeys(_, _)
InsideKeys(regions, k) ==
  IF k > Len(regions) THEN <<>>
  ELSE (IF haversine(Anchor.lat, Anchor.lng, regions[k].latitude.v, regions[k].longitude.v)
             <= regions[k].radius
        THEN <<regions[k].identifier>> ELSE <<>>) \o InsideKeys(regions, k + 1)

\* the coupons of the model: coupon i lies i * 100 m (the first two) or i km
\* north of the anchor; its store has coordinates, half of them, or none, an
\* address or none, and radii below, inside and above the bounds
CouponStore(i, kind) ==
  With(JsNum(IF i <= 2 THEN i ELSE 10 * i), LAMBDA lat :
    CASE kind = 1 -> [lat |-> lat, lng |-> JsNum(0), address |-> JsNull,
                      default_radius_m |-> JsNum(50), radius_m |-> JsNum(2000)]
      [] kind = 2 -> [lat |-> lat, lng |-> JsNull, address |-> JsStr(ToString(lat.v)),
                      default_radius_m |-> JsNull, radius_m |-> JsNum(5000)]
      [] kind = 3 -> [lat |-> lat, lng |-> JsNum(0), address |-> JsStr(ToString(lat.v)),
                      default_radius_m |-> JsNull, radius_m |-> JsNum(400)]
      [] kind = 4 -> [lat |-> JsNull, lng |-> JsNull, address |-> JsNull,
                      default_radius_m |-> JsNull, radius_m |-> JsNull]
      [] kind = 6 -> [lat |-> lat, lng |-> JsNum(0), address |-> JsNull,
                      default_radius_m |-> JsNum(900), radius_m |-> JsNum(100)]
      [] OTHER -> [lat |-> lat, lng |-> JsNum(0), address |-> JsNull,
                   default_radius_m |-> JsNull, radius_m |-> JsNull])

CouponAt(i, shift) ==
  [id |-> CouponId(i),
   valid_to |-> IF i % 3 = 0 THEN JsNull ELSE JsNum(7 * ((i % 3) - 1)),
   store |-> CouponStore(i, (i + shift) % 8)]

CouponCounts == {0, 1, 2, 3, MaxCoupons}

CouponLists ==
  {[i \in 1..n |-> CouponAt(i, shift)] : n \in CouponCounts, shift \in 0..7}

\* registerFromCoupons(coupons) is called:
\* await Location.getCurrentPositionAsync(...)
RegisterFromCoupons(h) ==
  /\ tasks[h].pc = "idle"
  /\ \E coupons \in CouponLists :
       /\ arg' = coupons
       /\ tasks' = [tasks EXCEPT ![h] = [pc |-> "position", coupons |-> coupons]]
  /\ UNCHANGED <<text, parsed, lastIndex, calls, ret, storage, os, feed>>

\* the position fix arrives; the loop over the coupons starts
PositionFix(h) ==
  /\ tasks[h].pc = "position"
  /\ tasks' = [tasks EXCEPT ![h] = RegisterLoop(tasks[h].coupons, 1, <<>>)]
  /\ UNCHANGED <<text, parsed, lastIndex, calls, arg, ret, storage, os, feed>>

\* await Location.geocodeAsync(c.store.address) settles: with a place, with an
\* empty list, or with an error that is ignored
GeocodeAnswers(h) ==
  /\ tasks[h].pc = "geocode"
  /\ \E outcome \in {"found", "empty", "throws"} :
       tasks' = [tasks EXCEPT ![h] =
         With(tasks[h].coupons[tasks[h].i], LAMBDA c :
           RegisterLoop(tasks[h].coupons, tasks[h].i + 1,
             IF outcome = "found"
             THEN PushWithCoords(tasks[h].withCoords, c,
                    GeocodedPlace(c.store.address).latitude,
                    GeocodedPlace(c.store.address).longitude)
             ELSE PushWithCoords(tasks[h].withCoords, c, c.store.lat, c.store.lng)))]
  /\ UNCHANGED <<text, parsed, lastIndex, calls, arg, ret, storage, os, feed>>

\* try { await Location.stopGeofencingAsync(TASK); } catch {}
StopGeofencing(h) ==
  /\ tasks[h].pc = "stop"
  /\ os' = [os EXCEPT !.regions = <<>>]
  /\ tasks' = [tasks EXCEPT ![h] = [tasks[h] EXCEPT !.pc = "meta"]]
  /\ UNCHANGED <<text, parsed, lastIndex, calls, arg, ret, storage, feed>>

\* await AsyncStorage.setItem(META_KEY, JSON.stringify(meta))
WriteMeta(h) ==
  /\ tasks[h].pc = "meta"
  /\ storage' = [storage EXCEPT !.meta = tasks[h].meta]
  /\ tasks' = [tasks EXCEPT ![h] = [tasks[h] EXCEPT !.pc = "start"]]
  /\ UNCHANGED <<text, parsed, lastIndex, calls, arg, ret, os, feed>>

\* await Location.startGeofencingAsync(TASK, regions), then the loop over the
\* regions up to its first allowNotify
StartGeofencing(h) ==
  /\ tasks[h].pc = "start"
  /\ os' = [os EXCEPT !.regions = tasks[h].regions]
  /\ tasks' = [tasks EXCEPT ![h] =
       With(InsideKeys(tasks[h].regions, 1), LAMBDA keys :
         IF keys = <<>> THEN [pc |-> "done"] ELSE AtAllow("register", keys))]
  /\ UNCHANGED <<text, parsed, lastIndex, calls, arg, ret, storage, feed>>

\* startGeofencingAsync rejects an empty list of regions: the call ends with
\* the error
StartRejected(h) ==
  /\ tasks[h].pc = "start"
  /\ tasks[h].regions = <<>>
  /\ tasks' = [tasks EXCEPT ![h] = [pc |-> "raised"]]
  /\ UNCHANGED <<text, parsed, lastIndex, calls, arg, ret, storage, os, feed>>

\* a region and its metadata as an earlier call left them
EarlierRegion ==
  [identifier |-> "k0", latitude |-> JsNum(500), longitude |-> JsNum(0), radius |-> DEFAULT_RADIUS]

\* the device before a call: nothing or one region registered by an earlier
\* call, and a throttle state that allows a notification, has key k1 in its
\* cooldown, or has reached the daily cap
InitRegister ==
  /\ text = <<>>
  /\ parsed = JsUndef
  /\ lastIndex = 0
  /\ calls = NoCalls
  /\ arg = <<>>
  /\ ret = JsUndef
  /\ feed = Absent
  /\ tasks = [h \in Handlers |-> IdleTask]
  /\ \E earlier \in BOOLEAN, throttle \in {"free", "cooldown", "cap"} :
       /\ storage =
            [state |-> CASE throttle = "free" -> NoThrottleState
                         [] throttle = "cooldown" ->
                              [day |-> 1, daily |-> 1,
                               lastByKey |-> [NoThrottleState.lastByKey EXCEPT !["k1"] = 999]]
                         [] OTHER -> [NoThrottleState EXCEPT !.day = 1, !.daily = DAILY_CAP],
             meta |-> IF earlier THEN MetaOf(<<[id |-> "k0"]>>) ELSE MetaOf(<<>>)]
       /\ os = [now |-> 1000, day |-> 1, ticks |-> 0, sent |-> <<>>, sentBefore |-> 0,
                regions |-> IF earlier THEN <<EarlierRegion>> ELSE <<>>]

NextRegister ==
  \/ RegisterFromCoupons(1) \/ PositionFix(1) \/ GeocodeAnswers(1)
  \/ StopGeofencing(1) \/ WriteMeta(1) \/ StartGeofencing(1) \/ StartRejected(1)
  \/ AllowBegin(1) \/ AllowCheck(1) \/ DenyWrite(1)
  \/ ScheduleNearby(1) \/ MarkBegin(1) \/ MarkCount(1) \/ MarkWrite(1)

SpecRegister == InitRegister /\ [][NextRegister]_vars

\* the call of handler h has returned or ended with an error
CallEnded(h) == tasks[h].pc \in {"done", "raised"}

\* region r was built from coupon c, whose store has both coordinates or an
\* address that the geocoder placed
FromCouponWithCoords(r, c) ==
  /\ c.id = r.identifier
  /\ \/ /\ c.store.lat # JsNull /\ c.store.lng # JsNull
        /\ r.latitude = c.store.lat /\ r.longitude = c.store.lng
     \/ /\ c.store.address # JsNull
        /\ r.latitude = GeocodedPlace(c.store.address).latitude
        /\ r.longitude = GeocodedPlace(c.store.address).longitude

-----------------------------------------------------------------------------
\* The notification inbox (lib/geo.ts): logAndScheduleNotification and
\* appendNotificationToInbox over the items under INBOX_KEY and the count under
\* UNREAD_KEY.

InboxMax == 50

MaxLogged == 3

\* an inbox item, told from the others by the moment it was created
InboxItem(t) == [createdAt |-> t]

\* inbox.unshift(item); if (inbox.length > 50) inbox = inbox.slice(0, 50)
Unshifted(inbox, item) ==
  With(<<item>> \o inbox, LAMBDA longer :
    IF Len(longer) > InboxMax THEN SubSeq(longer, 1, InboxMax) ELSE longer)

\* rawCount ? parseInt(rawCount, 10) || 0 : 0
PrevUnread(rawCount) ==
  IF rawCount = JsNull \/ rawCount.v = <<>> THEN 0 ELSE ParseInt(rawCount.v)

\* logAndScheduleNotification(args): the notification is scheduled, then
\* appendNotificationToInbox awaits getItem(INBOX_KEY)
LogNotification(h) ==
  /\ tasks[h].pc = "idle"
  /\ os.logged < MaxLogged
  /\ os' = [os EXCEPT !.logged = os.logged + 1]
  /\ tasks' = [tasks EXCEPT ![h] = [pc |-> "inboxRead"]]
  /\ UNCHANGED <<text, parsed, lastIndex, calls, arg, ret, storage, feed>>

\* the items arrive: the new item is created and put first, at most 50 are kept,
\* setItem(INBOX_KEY) is awaited
InboxRead(h) ==
  /\ tasks[h].pc = "inboxRead"
  /\ os' = [os EXCEPT !.now = os.now + 1]
  /\ tasks' = [tasks EXCEPT ![h] =
       [pc |-> "inboxWrite", val |-> Unshifted(storage.inbox, InboxItem(os.now))]]
  /\ UNCHANGED <<text, parsed, lastIndex, calls, arg, ret, storage, feed>>

\* the items are written; getItem(UNREAD_KEY) is awaited
InboxWrite(h) ==
  /\ tasks[h].pc = "inboxWrite"
  /\ storage' = [storage EXCEPT !.inbox = tasks[h].val]
  /\ tasks' = [tasks EXCEPT ![h] = [pc |-> "unreadRead"]]
  /\ UNCHANGED <<text, parsed, lastIndex, calls, arg, ret, os, feed>>

\* the count arrives; setItem(UNREAD_KEY, String(prev + 1)) is awaited
UnreadRead(h) ==
  /\ tasks[h].pc = "unreadRead"
  /\ tasks' = [tasks EXCEPT ![h] =
       [pc |-> "unreadWrite", val |-> JsStr(NumToStr(PrevUnread(storage.unread) + 1))]]
  /\ UNCHANGED <<text, parsed, lastIndex, calls, arg, ret, storage, os, feed>>

\* the count is written and the call returns
UnreadWrite(h) ==
  /\ tasks[h].pc = "unreadWrite"
  /\ storage' = [storage EXCEPT !.unread = tasks[h].val]
  /\ tasks' = [tasks EXCEPT ![h] = IdleTask]
  /\ UNCHANGED <<text, parsed, lastIndex, calls, arg, ret, os, feed>>

\* the device with before items logged so far, all of them unread, the newest
\* first; none leaves both keys absent
InitInbox ==
  /\ text = <<>>
  /\ parsed = JsUndef
  /\ lastIndex = 0
  /\ calls = NoCalls
  /\ arg = <<>>
  /\ ret = JsUndef
  /\ feed = Absent
  /\ tasks = [h \in Handlers |-> IdleTask]
  /\ \E before \in {0, 1, InboxMax - 1, InboxMax} :
       /\ storage = [inbox |-> [i \in 1..before |-> InboxItem(before - i + 1)],
                     unread |-> IF before = 0 THEN JsNull ELSE JsStr(NumToStr(before))]
       /\ os = [now |-> 1000, logged |-> 0, before |-> before]

NextInbox ==
  \E h \in Handlers :
    \/ LogNotification(h) \/ InboxRead(h) \/ InboxWrite(h)
    \/ UnreadRead(h) \/ UnreadWrite(h)

SpecInbox == InitInbox /\ [][NextInbox]_vars

\* no call of appendNotificationToInbox is under way
InboxAtRest == \A h \in Handlers : tasks[h].pc = "idle"

\* the items are ordered newest first
NewestFirst(inbox) ==
  \A i, j \in DOMAIN inbox : i < j => inbox[i].createdAt > inbox[j].createdAt

\* C30: once the logged notifications have been appended, the inbox holds the
\* newest min(50, all) items, newest first, and the unread count has grown by one
\* for each of them, also when the calls interleaved.
C30_InboxKeepsEveryItem ==
  InboxAtRest =>
    /\ Len(storage.inbox) = Min(InboxMax, os.before + os.logged)
    /\ NewestFirst(storage.inbox)
    /\ PrevUnread(storage.unread) = os.before + os.logged

\* the part of C30 that does not count: never more than 50 items, newest first
InboxBoundedAndOrdered ==
  Len(storage.inbox) <= InboxMax /\ NewestFirst(storage.inbox)


-----------------------------------------------------------------------------
\* The feed screen (app/(protected)/(tabs)/feed.tsx): the query sequence number
\* querySeqRef, the list state (items, page, hasMore, paging) and the requests
\* that loadPage has sent and whose answers are awaited. A request keeps what its
\* closure captured when it was sent. A row is told by the reload whose query
\* produced it and by its page.

MaxReloads == 2
MaxRequests == 3
MaxPage == 2

Requests == 1..MaxRequests

\* request r can be sent: a new request takes the first free place
CanSend(r) ==
  /\ tasks[r].pc = "idle"
  /\ \A q \in Requests : q < r => tasks[q].pc # "idle"

\* a request that is never taken for stale
NeverStale(req) == FALSE

\* mySeq !== querySeqRef.current
IsStale(req) == req.mySeq # feed.seq

\* the rows a request is answered with
RowsOf(req) == <<[query |-> req.query, page |-> req.pageIndex]>>

\* loadPage(pageIndex, replace) up to its await, sent for the query of reload
\* query: const mySeq = querySeqRef.current
SentRequest(seq, query, pageIndex, replace, caller) ==
  [pc |-> "await", mySeq |-> seq, query |-> query, pageIndex |-> pageIndex,
   replace |-> replace, caller |-> caller, supportsCategory |-> feed.supportsCategory]

\* bumpSeq(); resetListForNewQuery(); loadPage(0, true, opts): setPaging(true)
ReloadedFeed ==
  [feed EXCEPT !.seq = feed.seq + 1, !.items = <<>>, !.page = 0, !.hasMore = TRUE,
               !.paging = TRUE]

\* initialLoad on focus: setLoading(true), then immediateReload()
InitialLoad(r) ==
  /\ feed.seq = 0
  /\ CanSend(r)
  /\ feed' = ReloadedFeed
  /\ tasks' = [tasks EXCEPT ![r] = SentRequest(feed.seq + 1, feed.seq + 1, 0, TRUE, "initialLoad")]
  /\ UNCHANGED <<text, parsed, lastIndex, calls, arg, ret, storage, os>>

\* immediateReload(opts) of a filter change or a search
ImmediateReload(r) ==
  /\ feed.seq >= 1 /\ feed.seq < MaxReloads
  /\ CanSend(r)
  /\ feed' = ReloadedFeed
  /\ tasks' = [tasks EXCEPT ![r] = SentRequest(feed.seq + 1, feed.seq + 1, 0, TRUE, "immediateReload")]
  /\ UNCHANGED <<text, parsed, lastIndex, calls, arg, ret, storage, os>>

\* onRefresh: setRefreshing(true); bumpSeq(); resetListForNewQuery();
\* loadPage(0, true)
OnRefresh(r) ==
  /\ feed.seq >= 1 /\ feed.seq < MaxReloads
  /\ CanSend(r)
  /\ feed' = [ReloadedFeed EXCEPT !.refreshing = TRUE]
  /\ tasks' = [tasks EXCEPT ![r] = SentRequest(feed.seq + 1, feed.seq + 1, 0, TRUE, "onRefresh")]
  /\ UNCHANGED <<text, parsed, lastIndex, calls, arg, ret, storage, os>>

\* onEndReached: if (!loading && hasMore) loadPage(page + 1), which returns at
\* once when paging is set
OnEndReached(r) ==
  /\ ~feed.loading /\ feed.hasMore
  /\ ~feed.paging
  /\ feed.page < MaxPage
  /\ CanSend(r)
  /\ feed' = [feed EXCEPT !.paging = TRUE]
  /\ tasks' = [tasks EXCEPT ![r] = SentRequest(feed.seq, feed.seq, feed.page + 1, FALSE, "onEndReached")]
  /\ UNCHANGED <<text, parsed, lastIndex, calls, arg, ret, storage, os>>

\* finally { if (mySeq === querySeqRef.current) setPaging(false) }, and what
\* the caller does when loadPage has returned: setLoading(false) in initialLoad,
\* setRefreshing(false) in onRefresh
Finally(f, req) ==
  [f EXCEPT !.paging = IF IsStale(req) THEN f.paging ELSE FALSE,
            !.loading = IF req.caller = "initialLoad" THEN FALSE ELSE f.loading,
            !.refreshing = IF req.caller = "onRefresh" THEN FALSE ELSE f.refreshing]

\* the answer is an error naming the category column, and the closure still holds
\* supportsCategory: setSupportsCategory(false); setPaging(false);
\* return loadPage(pageIndex, replace, overrides), which sets paging and takes
\* the sequence number anew; then the finally of the outer call
CategoryRetry(r) ==
  /\ tasks[r].pc = "await"
  /\ ~feed.hasCategoryColumn
  /\ tasks[r].supportsCategory
  /\ feed' = [feed EXCEPT !.supportsCategory = FALSE,
                          !.paging = IsStale(tasks[r])]
  /\ tasks' = [tasks EXCEPT ![r] = [tasks[r] EXCEPT !.mySeq = feed.seq]]
  /\ UNCHANGED <<text, parsed, lastIndex, calls, arg, ret, storage, os>>

\* the answer is an error that is thrown: catch, finally
RequestFails(r) ==
  /\ tasks[r].pc = "await"
  /\ feed.hasCategoryColumn \/ ~tasks[r].supportsCategory
  /\ feed' = Finally(feed, tasks[r])
  /\ tasks' = [tasks EXCEPT ![r] = IdleTask]
  /\ UNCHANGED <<text, parsed, lastIndex, calls, arg, ret, storage, os>>

\* the answer is a page of rows, full or not: a stale one is dropped with
\* setPaging(false), any other sets hasMore, page and items
RequestAnswered(r) ==
  /\ tasks[r].pc = "await"
  /\ feed.hasCategoryColumn
  /\ \E full \in BOOLEAN :
       feed' =
         IF IsStale(tasks[r])
         THEN [Finally(feed, tasks[r]) EXCEPT !.paging = FALSE, !.dropped = TRUE]
         ELSE Finally([feed EXCEPT !.hasMore = full,
                                   !.page = tasks[r].pageIndex,
                                   !.items = IF tasks[r].replace THEN RowsOf(tasks[r])
                                             ELSE feed.items \o RowsOf(tasks[r])],
                      tasks[r])
  /\ tasks' = [tasks EXCEPT ![r] = IdleTask]
  /\ UNCHANGED <<text, parsed, lastIndex, calls, arg, ret, storage, os>>

\* the screen when it is mounted, over a database with or without the category
\* column
InitFeed ==
  /\ text = <<>>
  /\ parsed = JsUndef
  /\ lastIndex = 0
  /\ calls = NoCalls
  /\ arg = <<>>
  /\ ret = JsUndef
  /\ storage = Absent
  /\ os = Absent
  /\ tasks = [r \in Requests |-> IdleTask]
  /\ \E column \in BOOLEAN :
       feed = [seq |-> 0, items |-> <<>>, page |-> 0, hasMore |-> TRUE, paging |-> FALSE,
               loading |-> TRUE, refreshing |-> FALSE, supportsCategory |-> TRUE, hasCategoryColumn |-> column,
               dropped |-> FALSE]

Respond(r) == CategoryRetry(r) \/ RequestFails(r) \/ RequestAnswered(r)

NextFeed ==
  \E r \in Requests :
    \/ InitialLoad(r) \/ ImmediateReload(r) \/ OnRefresh(r) \/ OnEndReached(r)
    \/ CategoryRetry(r) \/ RequestFails(r) \/ RequestAnswered(r)

SpecFeed == InitFeed /\ [][NextFeed]_vars

\* every request that was sent is answered in the end
SpecFeedFair == SpecFeed /\ \A r \in Requests : WF_vars(Respond(r))

\* every request has returned
AllReturned == \A r \in Requests : tasks[r].pc = "idle"

\* the answer to a stale request leaves items, page and hasMore alone
StaleAnswerIgnored ==
  \A r \in Requests :
    (tasks[r].pc = "await" /\ IsStale(tasks[r]) /\ tasks'[r].pc = "idle")
      => (feed'.items = feed.items /\ feed'.page = feed.page /\ feed'.hasMore = feed.hasMore)

\* the rows shown come from the query of the newest reload
ItemsOfNewestQuery == \A k \in DOMAIN feed.items : feed.items[k].query = feed.seq

\* C29: the answer to a request that a newer reload has overtaken changes
\* neither items, page nor hasMore; the rows shown come only from the query of
\* the newest reload; when every request has returned paging is clear, and a set
\* paging flag is cleared in the end.
C29_StaleAnswersDropped ==
  /\ [][StaleAnswerIgnored]_vars
  /\ [](ItemsOfNewestQuery)
  /\ [](AllReturned => ~feed.paging)
  /\ (feed.paging ~> ~feed.paging)

\* the answer to an overtaken request was dropped, every request has returned,
\* and the screen shows two pages of the newest query
C29_Witness ==
  /\ feed.dropped /\ AllReturned /\ ~feed.paging
  /\ feed.seq > 1 /\ Len(feed.items) = 2

====
